---- MODULE Spec2Model ----
(***************************************************************************)
(* A model of the report generator: the template engine (ppt_engine.py),   *)
(* the image fetcher (image_handler.py) and the month formatter            *)
(* (text_handler.py).                                                      *)
(*                                                                         *)
(* A Python string is modelled as the sequence of its lines (the pieces    *)
(* between "\n"): "" is <<"">>, "A" is <<"A">>, "A\nB" is <<"A", "B">>.    *)
(* An f-string message is the sequence of its literal and formatted parts. *)
(* Thai month names are written in Latin transliteration.                  *)
(***************************************************************************)
EXTENDS Integers, Sequences, FiniteSets, TLC

VARIABLES
    slides,     \* prs.slides: the slides in document order
    masters,    \* prs.slide_masters: each master is the sequence of its layouts
    res,        \* the last engine call: its arguments, return value or exception
    fetch,      \* ImageHandler: the retry budget and progress of get_image(url)
    months,     \* the month formatter: its arguments and its result
    fs,         \* the file system under the working directory: directories, files
    outp,       \* OutputManager: the spec, and the last build_output_path call
    run,        \* generate_flood_report: its arguments, position and progress
    app         \* main(): the command line, the position in the loop, the exit

engineVars == <<slides, masters, res>>

coreVars == <<slides, masters, res, fetch, months>>

restVars == <<fs, outp, run, app>>

vars == <<slides, masters, res, fetch, months, fs, outp, run, app>>

(***************************************************************************)
(* Bounds of the model.                                                    *)
(***************************************************************************)
MaxShapes == 2      \* shapes on the enumerated slide of a template
MaxParas == 2       \* paragraphs of an enumerated text frame
MaxRuns == 2        \* runs of an enumerated paragraph
MaxLayoutShapes == 1 \* shapes on an enumerated layout
MaxLead == 5        \* largest enumerated lead offset (besides 13)
MaxLeads == 3       \* length of an enumerated list of lead offsets
MaxBuilds == 3      \* calls of build_output_path for one spec
MaxIterations == 2  \* passes of the main loop that ask the user for parameters

(***************************************************************************)
(* Small helpers.                                                          *)
(***************************************************************************)
SeqsUpTo(S, n) == UNION {[1..k -> S] : k \in 0..n}

Range(s) == {s[k] : k \in 1..Len(s)}

MinOf(S) == CHOOSE m \in S : \A k \in S : m <= k

MaxOf(S) == CHOOSE m \in S : \A k \in S : m >= k

RemoveAt(s, i) == [k \in 1..(Len(s) - 1) |-> IF k < i THEN s[k] ELSE s[k + 1]]

\* list.insert(i0, x) with a 0-based index: an index past the end appends.
ListInsert(s, i0, x) ==
    LET at == IF i0 > Len(s) THEN Len(s) ELSE i0
    IN  [k \in 1..(Len(s) + 1) |->
            IF k <= at THEN s[k] ELSE IF k = at + 1 THEN x ELSE s[k - 1]]

EmptyStr == <<"">>

(***************************************************************************)
(* Text frames.  A paragraph is the sequence of its content children: runs *)
(* (a:r) and line breaks (a:br).  paragraph.runs are the runs among them.  *)
(***************************************************************************)
Run(t) == [kind |-> "r", text |-> t]

Br == [kind |-> "br", text |-> EmptyStr]

Runs(p) == SelectSeq(p, LAMBDA e : e.kind = "r")

RunsBefore(p, i) == Cardinality({k \in 1..(i - 1) : p[k].kind = "r"})

\* paragraph.text = text: the content is dropped, then one run is added per
\* non-empty line, with a line break between two lines.
RECURSIVE AppendText(_, _)
AppendText(lines, idx) ==
    IF idx > Len(lines) THEN <<>>
    ELSE (IF idx > 1 THEN <<Br>> ELSE <<>>)
         \o (IF lines[idx] # "" THEN <<Run(<<lines[idx]>>)>> ELSE <<>>)
         \o AppendText(lines, idx + 1)

ParagraphSetText(text) == AppendText(text, 1)

\* text_frame.text = text: the paragraphs are dropped, then one paragraph is
\* added per line.
TextFrameSetText(text) ==
    [k \in 1..Len(text) |-> IF text[k] # "" THEN <<Run(<<text[k]>>)>> ELSE <<>>]

\* p0.runs[0].text = text (ppt_engine.py line 196)
SetFirstRun(p0, text) ==
    [i \in 1..Len(p0) |->
        IF p0[i].kind = "r" /\ RunsBefore(p0, i) = 0 THEN Run(text) ELSE p0[i]]

\* Variant: the remaining runs of the first paragraph are left as they are.
ClearRemainingRuns_skipped(p0) == p0

\* for r in p0.runs[1:]: r.text = ""   (lines 199-200)
ClearRemainingRuns(p0) ==
    [i \in 1..Len(p0) |->
        IF p0[i].kind = "r" /\ RunsBefore(p0, i) >= 1 THEN Run(EmptyStr) ELSE p0[i]]

\* Variant: the runs of the other paragraphs are left as they are.
ClearParagraphRuns_skipped(p) == p

\* for r in p.runs: r.text = ""   (lines 204-205, one paragraph)
ClearParagraphRuns(p) ==
    [i \in 1..Len(p) |-> IF p[i].kind = "r" THEN Run(EmptyStr) ELSE p[i]]

\* The preserve-format path of set_text (lines 180-205).
PreserveFormatText(tf, text) ==
    IF Len(tf) = 0 THEN TextFrameSetText(text)
    ELSE IF Len(Runs(tf[1])) = 0 THEN [tf EXCEPT ![1] = ParagraphSetText(text)]
    ELSE [k \in 1..Len(tf) |->
            IF k = 1 THEN ClearRemainingRuns(SetFirstRun(tf[1], text))
            ELSE ClearParagraphRuns(tf[k])]

\* text_frame.clear(): every paragraph but the first is removed and the first
\* is emptied; with no paragraph at all, paragraphs[0] raises IndexError.
\* Then paragraphs[0].text = text   (lines 173-174).
PlainText(tf, text) ==
    IF Len(tf) = 0
    THEN [exc |-> "IndexError", tf |-> tf]
    ELSE [exc |-> "", tf |-> <<ParagraphSetText(text)>>]

(***************************************************************************)
(* Shapes, slides and layouts.                                             *)
(***************************************************************************)
SLIDE_KEY_PREFIX == "SLIDE_KEY_"

\* The children of a p:spTree that precede its shapes: p:nvGrpSpPr, p:grpSpPr.
SpTreeHeader == 2

Shape(id, name, type, l, t, w, h, tf, image) ==
    [id |-> id, name |-> name, shape_type |-> type,
     left |-> l, top |-> t, width |-> w, height |-> h,
     tf |-> tf, image |-> image]

\* shape.has_text_frame: text boxes and auto shapes have one; pictures, groups
\* and graphic frames have none.
has_text_frame(shape) == shape.shape_type = "TEXT_BOX"

Geometry(shape) == <<shape.left, shape.top, shape.width, shape.height>>

\* Variant: the scan keeps going and returns the last slide with the anchor.
find_slide_by_key_last(prs_slides, slide_key) ==
    LET anchor_name == "SLIDE_KEY_" \o slide_key
        hits == {i \in 1..Len(prs_slides) :
                    \E k \in 1..Len(prs_slides[i].shapes) :
                        prs_slides[i].shapes[k].name = anchor_name}
    IN  IF hits # {}
        THEN [exc |-> "", msg |-> <<>>, val |-> MaxOf(hits)]
        ELSE [exc |-> "SlideNotFoundError",
              msg |-> <<"Slide with key '", slide_key,
                        "' not found (expected anchor shape name '",
                        anchor_name, "')">>,
              val |-> 0]

\* find_slide_by_key: the first slide, in document order, with a shape named
\* SLIDE_KEY_<slide_key>; val is its index in prs.slides.
find_slide_by_key(prs_slides, slide_key) ==
    LET anchor_name == SLIDE_KEY_PREFIX \o slide_key
        hits == {i \in 1..Len(prs_slides) :
                    \E k \in 1..Len(prs_slides[i].shapes) :
                        prs_slides[i].shapes[k].name = anchor_name}
    IN  IF hits # {}
        THEN [exc |-> "", msg |-> <<>>, val |-> MinOf(hits)]
        ELSE [exc |-> "SlideNotFoundError",
              msg |-> <<"Slide with key '", slide_key,
                        "' not found (expected anchor shape name '",
                        anchor_name, "')">>,
              val |-> 0]

\* Variant: the scan keeps going and returns the last shape of the name.
get_shape_last(slide, shape_name) ==
    LET hits == {k \in 1..Len(slide.shapes) : slide.shapes[k].name = shape_name}
    IN  IF hits # {}
        THEN [exc |-> "", msg |-> <<>>, val |-> MaxOf(hits)]
        ELSE [exc |-> "ShapeNotFoundError",
              msg |-> <<"Shape '", shape_name, "' not found on slide_id=",
                        ToString(slide.slide_id)>>,
              val |-> 0]

\* get_shape: the first shape of the slide with that name; val is its
\* position in slide.shapes.
get_shape(slide, shape_name) ==
    LET hits == {k \in 1..Len(slide.shapes) : slide.shapes[k].name = shape_name}
    IN  IF hits # {}
        THEN [exc |-> "", msg |-> <<>>, val |-> MinOf(hits)]
        ELSE [exc |-> "ShapeNotFoundError",
              msg |-> <<"Shape '", shape_name, "' not found on slide_id=",
                        ToString(slide.slide_id)>>,
              val |-> 0]

\* set_text: val is the slide after the call.
set_text(slide, shape_name, text, preserve_format) ==
    LET found == get_shape(slide, shape_name)
        shape == slide.shapes[found.val]
        plain == PlainText(shape.tf, text)
    IN  IF found.exc # ""
        THEN [exc |-> found.exc, msg |-> found.msg, val |-> slide]
        ELSE IF ~has_text_frame(shape)
        THEN [exc |-> "PptEngineError",
              msg |-> <<"Shape '", shape_name, "' has no text frame">>,
              val |-> slide]
        ELSE IF ~preserve_format
        THEN [exc |-> plain.exc, msg |-> <<>>,
              val |-> [slide EXCEPT !.shapes[found.val].tf = plain.tf]]
        ELSE [exc |-> "", msg |-> <<>>,
              val |-> [slide EXCEPT !.shapes[found.val].tf =
                                        PreserveFormatText(shape.tf, text)]]

\* _set_text_on_shape (lines 117-148): val is the shape after the call.
set_text_on_shape(shape, text, preserve_format) ==
    IF ~has_text_frame(shape)
    THEN [exc |-> "ValueError",
          msg |-> <<"Shape '", shape.name, "' has no text frame">>,
          val |-> shape]
    ELSE IF ~preserve_format
    THEN [exc |-> "", msg |-> <<>>,
          val |-> [shape EXCEPT !.tf = TextFrameSetText(text)]]
    ELSE [exc |-> "", msg |-> <<>>,
          val |-> [shape EXCEPT !.tf = PreserveFormatText(shape.tf, text)]]

\* The places <<master, layout, shape>> of the layout shapes, and the order
\* in which the three nested loops of set_text_on_layouts visit them.
LayoutPlaces(ms) ==
    UNION {UNION {{<<m, l, k>> : k \in 1..Len(ms[m][l])} : l \in 1..Len(ms[m])} :
           m \in 1..Len(ms)}

Visits(a, b) ==
    \/ a[1] < b[1]
    \/ a[1] = b[1] /\ a[2] < b[2]
    \/ a[1] = b[1] /\ a[2] = b[2] /\ a[3] < b[3]

\* Variant: the loops stop at the first shape of the name.
set_text_on_layouts_first_only(ms, shape_name, text, preserve_format) ==
    LET matches == {q \in LayoutPlaces(ms) : ms[q[1]][q[2]][q[3]].name = shape_name}
        first == CHOOSE q \in matches : \A o \in matches : o = q \/ Visits(q, o)
        set == set_text_on_shape(ms[first[1]][first[2]][first[3]], text,
                                 preserve_format)
    IN  IF matches = {}
        THEN [exc |-> "ShapeNotFoundError",
              msg |-> <<"Shape '", shape_name, "' not found on any slide layout.">>,
              val |-> ms, count |-> 0]
        ELSE IF set.exc # ""
        THEN [exc |-> set.exc, msg |-> set.msg, val |-> ms, count |-> 0]
        ELSE [exc |-> "", msg |-> <<>>, count |-> 1,
              val |-> [ms EXCEPT ![first[1]][first[2]][first[3]] = set.val]]

\* set_text_on_layouts (lines 98-114): val is prs.slide_masters after the
\* call, count the number returned.  A matching shape without a text frame
\* raises out of the loops: the shapes visited before it stay updated.
set_text_on_layouts(ms, shape_name, text, preserve_format) ==
    LET matches == {q \in LayoutPlaces(ms) : ms[q[1]][q[2]][q[3]].name = shape_name}
        failing == {q \in matches : ~has_text_frame(ms[q[1]][q[2]][q[3]])}
        stop == IF failing = {} THEN <<0, 0, 0>>
                ELSE CHOOSE q \in failing : \A o \in failing : o = q \/ Visits(q, o)
        done == IF failing = {} THEN matches
                ELSE {q \in matches : Visits(q, stop)}
        after == [m \in 1..Len(ms) |-> [l \in 1..Len(ms[m]) |->
                    [k \in 1..Len(ms[m][l]) |->
                        IF <<m, l, k>> \in done
                        THEN set_text_on_shape(ms[m][l][k], text, preserve_format).val
                        ELSE ms[m][l][k]]]]
    IN  IF failing # {}
        THEN [exc |-> "ValueError",
              msg |-> set_text_on_shape(ms[stop[1]][stop[2]][stop[3]], text,
                                        preserve_format).msg,
              val |-> after, count |-> 0]
        ELSE IF Cardinality(matches) = 0
        THEN [exc |-> "ShapeNotFoundError",
              msg |-> <<"Shape '", shape_name, "' not found on any slide layout.">>,
              val |-> ms, count |-> 0]
        ELSE [exc |-> "", msg |-> <<>>, val |-> after, count |-> Cardinality(matches)]

\* The shape id add_picture gives the new picture: one more than the largest
\* id of the slide, the shape tree's own id (1) included.
NextShapeId(shapes) == MaxOf({1} \cup {shapes[k].id : k \in 1..Len(shapes)}) + 1

\* Variant: width and height are passed in each other's place.
add_picture_swapped(shapes, image_stream, left, top, width, height) ==
    LET id == MaxOf({1} \cup {shapes[k].id : k \in 1..Len(shapes)}) + 1
    IN  Append(shapes, [id |-> id, name |-> "Picture " \o ToString(id - 1),
                        shape_type |-> "PICTURE", left |-> left, top |-> top,
                        width |-> height, height |-> width,
                        tf |-> <<>>, image |-> image_stream])

\* slide.shapes.add_picture(image_stream, left, top, width, height)
\* (lines 241-247), image_stream holding a readable image: the new p:pic is
\* appended to the shape tree, named "Picture <id - 1>".
add_picture(shapes, image_stream, left, top, width, height) ==
    LET id == NextShapeId(shapes)
    IN  Append(shapes, Shape(id, "Picture " \o ToString(id - 1), "PICTURE",
                             left, top, width, height, <<>>, image_stream))

\* Variant: the new picture stays where add_picture put it, on top.
restore_z_order_skipped(shapes, z_order) == shapes

\* sp_tree.remove(pic._element); sp_tree.insert(z_order, pic._element)
\* (lines 251-252): pic is the last shape, z_order an index among the
\* children of the shape tree.
restore_z_order(shapes, z_order) ==
    LET pic == shapes[Len(shapes)]
    IN  ListInsert(RemoveAt(shapes, Len(shapes)), z_order - SpTreeHeader, pic)

\* What the two calls of the try block (lines 250-252) can do: both return,
\* sp_tree.remove raises, or sp_tree.insert raises after remove returned.
Faults == {"", "remove", "insert"}

\* Variant: an exception of the try block leaves replace_image.
try_restore_z_order_raising(shapes, z_order, fault) ==
    IF fault = "remove" THEN [exc |-> "ValueError", shapes |-> shapes]
    ELSE IF fault = "insert"
    THEN [exc |-> "TypeError", shapes |-> RemoveAt(shapes, Len(shapes))]
    ELSE [exc |-> "", shapes |-> restore_z_order(shapes, z_order)]

\* Variant: the picture is taken out of the tree once more than it is put
\* back.
try_restore_z_order_dropping(shapes, z_order, fault) ==
    [exc |-> "", shapes |-> RemoveAt(shapes, Len(shapes))]

\* try: remove, insert; except Exception: pass   (lines 249-255).  When
\* remove raises the tree is as add_picture left it; when insert raises the
\* picture has been removed and is in no tree.
try_restore_z_order(shapes, z_order, fault) ==
    IF fault = "remove" THEN [exc |-> "", shapes |-> shapes]
    ELSE IF fault = "insert"
    THEN [exc |-> "", shapes |-> RemoveAt(shapes, Len(shapes))]
    ELSE [exc |-> "", shapes |-> restore_z_order(shapes, z_order)]

\* Variant: the new picture is given the name of the shape it replaces.
replace_image_restoring_keeping_name(slide, shape_name, image_stream, fault) ==
    LET found == get_shape(slide, shape_name)
        shape == slide.shapes[found.val]
        z_order == SpTreeHeader + (found.val - 1)
        removed == RemoveAt(slide.shapes, found.val)
        added == add_picture(removed, image_stream,
                             shape.left, shape.top, shape.width, shape.height)
        named == [added EXCEPT ![Len(added)].name = shape_name]
        restored == try_restore_z_order(named, z_order, fault)
    IN  IF found.exc # ""
        THEN [exc |-> found.exc, msg |-> found.msg, val |-> slide]
        ELSE IF shape.shape_type # "PICTURE"
        THEN [exc |-> "PptEngineError",
              msg |-> <<"Shape '", shape_name, "' is not a picture (type=",
                        shape.shape_type, ")">>,
              val |-> slide]
        ELSE [exc |-> restored.exc, msg |-> <<>>,
              val |-> [slide EXCEPT !.shapes = restored.shapes]]

\* Variant: the old shape is removed before its type is looked at.
replace_image_restoring_remove_first(slide, shape_name, image_stream, fault) ==
    LET found == get_shape(slide, shape_name)
        shape == slide.shapes[found.val]
        z_order == SpTreeHeader + (found.val - 1)
        removed == RemoveAt(slide.shapes, found.val)
        added == add_picture(removed, image_stream,
                             shape.left, shape.top, shape.width, shape.height)
        restored == try_restore_z_order(added, z_order, fault)
    IN  IF found.exc # ""
        THEN [exc |-> found.exc, msg |-> found.msg, val |-> slide]
        ELSE IF shape.shape_type # "PICTURE"
        THEN [exc |-> "PptEngineError",
              msg |-> <<"Shape '", shape_name, "' is not a picture (type=",
                        shape.shape_type, ")">>,
              val |-> [slide EXCEPT !.shapes = removed]]
        ELSE [exc |-> restored.exc, msg |-> <<>>,
              val |-> [slide EXCEPT !.shapes = restored.shapes]]

\* replace_image (lines 223-257) under a fault of the try block: val is the
\* slide after the call.
replace_image_restoring(slide, shape_name, image_stream, fault) ==
    LET found == get_shape(slide, shape_name)
        shape == slide.shapes[found.val]
        z_order == SpTreeHeader + (found.val - 1)
        removed == RemoveAt(slide.shapes, found.val)
        added == add_picture(removed, image_stream,
                             shape.left, shape.top, shape.width, shape.height)
        restored == try_restore_z_order(added, z_order, fault)
    IN  IF found.exc # ""
        THEN [exc |-> found.exc, msg |-> found.msg, val |-> slide]
        ELSE IF shape.shape_type # "PICTURE"
        THEN [exc |-> "PptEngineError",
              msg |-> <<"Shape '", shape_name, "' is not a picture (type=",
                        shape.shape_type, ")">>,
              val |-> slide]
        ELSE [exc |-> restored.exc, msg |-> <<>>,
              val |-> [slide EXCEPT !.shapes = restored.shapes]]

\* replace_image (lines 223-257) when remove and insert both return: val is
\* the slide after the call.
replace_image(slide, shape_name, image_stream) ==
    replace_image_restoring(slide, shape_name, image_stream, "")

(***************************************************************************)
(* The templates the engine is opened on, and the arguments of its calls.  *)
(***************************************************************************)
Keys == {"a", "b"}

SlideShapeNames == {"SLIDE_KEY_a", "Img", "Txt"}

LayoutShapeNames == {"Txt_Footer", "Other"}

Texts == {EmptyStr, <<"A">>, <<"B">>, <<"A", "B">>}

Images == {"imgA"}

RunTexts == {<<"A">>}

DefaultFrame == <<<<Run(<<"A">>)>>>>

\* The j-th shape of slide i of a template; no two shapes share a geometry.
TemplateShape(i, j, name, type, tf) ==
    Shape(j + 1, name, type,
          100 * i + 10 * j + 1, 100 * i + 10 * j + 2,
          100 * i + 10 * j + 3, 100 * i + 10 * j + 4,
          IF type = "TEXT_BOX" THEN tf ELSE <<>>,
          IF type = "PICTURE" THEN "old" ELSE "")

TemplateSlide(i, specs) ==
    [slide_id |-> 255 + i,
     shapes |-> [j \in 1..Len(specs) |->
                    TemplateShape(i, j, specs[j][1], specs[j][2], DefaultFrame)]]

ShapeSpecs ==
    {<<"SLIDE_KEY_a", "TEXT_BOX">>, <<"SLIDE_KEY_a", "PICTURE">>,
     <<"Img", "PICTURE">>, <<"Img", "GROUP">>}

OtherSlides ==
    {TemplateSlide(2, <<<<"SLIDE_KEY_a", "GROUP">>, <<"Logo", "PICTURE">>>>),
     TemplateSlide(2, <<<<"Logo", "PICTURE">>>>)}

DefaultMasters == <<<<<<TemplateShape(1, 1, "Txt_Footer", "TEXT_BOX", DefaultFrame)>>>>>>

\* Templates that differ in the shapes of their first slide.
ShapeTemplates ==
    {[slides |-> <<TemplateSlide(1, specs), other>>, masters |-> DefaultMasters] :
        specs \in SeqsUpTo(ShapeSpecs, MaxShapes), other \in OtherSlides}

Paragraphs == SeqsUpTo({Run(t) : t \in RunTexts}, MaxRuns)

Frames == SeqsUpTo(Paragraphs, MaxParas)

\* Templates that differ in the text frame of their one text shape.
TextTemplates ==
    {[slides |-> <<[slide_id |-> 256,
                    shapes |-> <<TemplateShape(1, 1, "Txt", "TEXT_BOX", tf)>>]>>,
      masters |-> DefaultMasters] : tf \in Frames}

LayoutShapeSpecs ==
    {<<"Txt_Footer", "TEXT_BOX">>, <<"Txt_Footer", "GROUP">>, <<"Other", "TEXT_BOX">>}

TemplateLayout(specs) == TemplateSlide(1, specs).shapes

\* Templates that differ in the shapes of their layouts: a master with two
\* layouts and a master with one.
LayoutTemplates ==
    {[slides |-> <<TemplateSlide(1, <<<<"Img", "PICTURE">>>>)>>,
      masters |-> <<<<TemplateLayout(l1), TemplateLayout(l2)>>,
                    <<TemplateLayout(<<<<"Other", "TEXT_BOX">>>>)>>>>] :
        l1 \in SeqsUpTo(LayoutShapeSpecs, MaxLayoutShapes),
        l2 \in SeqsUpTo(LayoutShapeSpecs, MaxLayoutShapes)}

Templates == ShapeTemplates \cup TextTemplates

NoCall ==
    [op |-> "", exc |-> "", msg |-> <<>>, key |-> "", slide |-> 0, name |-> "",
     pos |-> 0, text |-> EmptyStr, preserve |-> FALSE, image |-> "", count |-> 0,
     fault |-> ""]

(***************************************************************************)
(* The engine: PptEngine(template_path) and its calls.                     *)
(***************************************************************************)
(***************************************************************************)
(* The image fetcher (image_handler.py).  An HTTP status is written as a   *)
(* string, like the two kinds of transport failure.                        *)
(***************************************************************************)
DefaultRetries == 3

status_forcelist == {"500", "502", "503", "504"}

Outcomes ==
    {"200", "404", "500", "502", "503", "504", "connect_error", "read_timeout"}

Bodies == {"png", "empty"}

None == [kind |-> "None", content |-> ""]

BytesIO(content) == [kind |-> "BytesIO", content |-> content]

NoFetch ==
    [pc |-> "idle", retries |-> DefaultRetries,
     total |-> 0, connect |-> 0, read |-> 0,
     attempts |-> 0, outcome |-> "", body |-> "", stream |-> None]

\* Retry(total=retries, read=retries, connect=retries, ...)   (lines 16-22)
Retry(retries) == [total |-> retries, read |-> retries, connect |-> retries]

\* Variant: a 404 is retried like a 5xx.
is_retry_any_error(outcome) == outcome # "200"

\* Retry.is_retry / the transport errors urlopen retries: a status of the
\* force list, a connection error, a read error of an idempotent request.
is_retry(outcome) ==
    outcome \in status_forcelist \cup {"connect_error", "read_timeout"}

\* Retry.increment: total is decremented, and so is the counter of the kind
\* of failure.
increment(retry, outcome) ==
    [total |-> retry.total - 1,
     connect |-> IF outcome = "connect_error" THEN retry.connect - 1 ELSE retry.connect,
     read |-> IF outcome = "read_timeout" THEN retry.read - 1 ELSE retry.read]

\* Retry.is_exhausted: some counter that is not zero is below zero.
is_exhausted(retry) ==
    LET retry_counts == {x \in {retry.total, retry.connect, retry.read} : x # 0}
    IN  retry_counts # {} /\ MinOf(retry_counts) < 0

\* download_image (lines 32-44): the body of a response that passes
\* raise_for_status; None when session.get or raise_for_status raised.
download_image(pc, outcome, body) ==
    IF pc = "responded" /\ outcome = "200" THEN BytesIO(body) ELSE None

\* Variant: the result of the download is returned as it is.
get_image_no_placeholder(img_stream, placeholder) == img_stream

\* get_image (lines 93-103): a BytesIO object is true whatever it holds.
get_image(img_stream, placeholder) ==
    IF img_stream.kind # "None" THEN img_stream ELSE placeholder

\* create_placeholder (lines 46-91): the drawn canvas, or the 1x1 pixel
\* when drawing it failed.
Placeholders == {BytesIO("placeholder"), BytesIO("pixel")}

\* No directory and no file.
NoFiles == [dirs |-> {}, files |-> {}]

\* The output manager before it is given a spec.
NoOutput ==
    [pc |-> "", spec |-> <<>>, exc |-> "", msg |-> <<>>, path |-> <<>>,
     probes |-> 0, builds |-> 0, saved |-> <<>>, fresh |-> FALSE]

\* No report run.
NoRun ==
    [pc |-> "", year |-> 0, month |-> 0, output_path |-> <<>>, config_path |-> "",
     configs |-> {}, templates |-> {}, config |-> <<>>, net |-> "", done |-> <<>>,
     saves |-> 0, exc |-> "", msg |-> <<>>, urls |-> <<>>]

\* No process.
NoApp ==
    [pc |-> "", entry |-> "", args |-> <<>>, rich |-> FALSE,
     report_type |-> "", year |-> 0, month |-> 0, prompts |-> 0, runs |-> 0,
     failures |-> 0, exit_reason |-> "", status |-> -1, exc |-> "",
     output_path |-> <<>>, opened |-> 0]

\* The components that take no part in a report of the engine, the fetcher
\* or the month formatter alone.
IdleRest == fs = NoFiles /\ outp = NoOutput /\ run = NoRun /\ app = NoApp

\* The month formatter before it is called.
NoMonths ==
    [pc |-> "", year |-> 0, month |-> 0, leads |-> <<>>, out |-> <<>>,
     range |-> <<>>]

InitFetch ==
    /\ IdleRest
    /\ slides = <<>> /\ masters = <<>> /\ res = NoCall
    /\ months = NoMonths
    /\ \E retries \in 0..DefaultRetries : fetch = [NoFetch EXCEPT !.retries = retries]

\* get_image(url) is called: download_image calls session.get.
GetImage ==
    /\ fetch.pc \in {"idle", "done"}
    /\ fetch' = [fetch EXCEPT !.pc = "sending",
                              !.total = Retry(fetch.retries).total,
                              !.connect = Retry(fetch.retries).connect,
                              !.read = Retry(fetch.retries).read,
                              !.attempts = 0, !.outcome = "", !.body = "",
                              !.stream = None]
    /\ UNCHANGED <<slides, masters, res, months, restVars>>

\* One attempt of the request, bounded by timeout=10: a response that is
\* not retried is returned; a failure that is retried uses up the budget,
\* and raises out of session.get once the budget is exhausted.
Attempt ==
    /\ fetch.pc = "sending"
    /\ \E outcome \in Outcomes, body \in Bodies :
        LET retry == increment(fetch, outcome)
        IN  fetch' =
              IF ~is_retry(outcome)
              THEN [fetch EXCEPT !.pc = "responded", !.attempts = @ + 1,
                                 !.outcome = outcome,
                                 !.body = IF outcome = "200" THEN body ELSE ""]
              ELSE [fetch EXCEPT !.pc = IF is_exhausted(retry) THEN "raised"
                                        ELSE "sending",
                                 !.attempts = @ + 1, !.outcome = outcome,
                                 !.total = retry.total, !.connect = retry.connect,
                                 !.read = retry.read]
    /\ UNCHANGED <<slides, masters, res, months, restVars>>

\* session.get has returned or raised: download_image and get_image finish.
Finish ==
    /\ fetch.pc \in {"responded", "raised"}
    /\ \E placeholder \in Placeholders :
        fetch' = [fetch EXCEPT
                    !.pc = "done",
                    !.stream = get_image(download_image(fetch.pc, fetch.outcome,
                                                        fetch.body),
                                         placeholder)]
    /\ UNCHANGED <<slides, masters, res, months, restVars>>

NextFetch ==
    \/ GetImage
    \/ Attempt
    \/ Finish

\* get_image is synchronous: a request that was sent is answered or times
\* out, and the code after it runs.
SpecFetch ==
    InitFetch /\ [][NextFetch]_vars /\ WF_vars(Attempt) /\ WF_vars(Finish)

(***************************************************************************)
(* The month formatter (text_handler.py).                                  *)
(***************************************************************************)
THAI_MONTHS ==
    <<"Makarakhom", "Kumphaphan", "Minakhom", "Mesayon", "Phruetsaphakhom",
      "Mithunayon", "Karakadakhom", "Singhakhom", "Kanyayon", "Tulakhom",
      "Phruetsachikayon", "Thanwakhom">>

get_thai_month(month_idx) ==
    IF 1 <= month_idx /\ month_idx <= 12 THEN THAI_MONTHS[(month_idx - 1) + 1] ELSE ""

get_buddhist_year(year) == year + 543

\* Variant: the year is never carried past December.
get_next_months_no_carry(start_year, start_month, n) ==
    IF n <= 0 THEN <<>>
    ELSE [k \in 1..n |->
            LET i == k - 1
                future_month_idx == ((start_month + i - 1) % 12) + 1
            IN  [year |-> start_year, month |-> future_month_idx,
                 thai_name |-> get_thai_month(future_month_idx),
                 buddhist_year |-> get_buddhist_year(start_year)]]

\* Variant: the month index is computed without the "- 1".
get_next_months_off_by_one(start_year, start_month, n) ==
    IF n <= 0 THEN <<>>
    ELSE [k \in 1..n |->
            LET i == k - 1
                future_month_idx == ((start_month + i) % 12) + 1
                future_year == start_year + ((start_month + i - 1) \div 12)
            IN  [year |-> future_year, month |-> future_month_idx,
                 thai_name |-> get_thai_month(future_month_idx),
                 buddhist_year |-> get_buddhist_year(future_year)]]

\* get_next_months (lines 18-34): element k is the descriptor of i = k - 1.
get_next_months(start_year, start_month, n) ==
    IF n <= 0 THEN <<>>
    ELSE [k \in 1..n |->
            LET i == k - 1
                future_month_idx == ((start_month + i - 1) % 12) + 1
                year_offset == (start_month + i - 1) \div 12
                future_year == start_year + year_offset
            IN  [year |-> future_year, month |-> future_month_idx,
                 thai_name |-> get_thai_month(future_month_idx),
                 buddhist_year |-> get_buddhist_year(future_year)]]

\* get_months_for_leads (lines 37-43)
get_months_for_leads(start_year, start_month, leads) ==
    IF leads = <<>> THEN <<>>
    ELSE LET max_lead == MaxOf({leads[j] : j \in 1..Len(leads)})
             all_months == get_next_months(start_year, start_month, max_lead + 1)
         IN  [j \in 1..Len(leads) |-> all_months[leads[j] + 1]]

\* Variant: both years are written even when they are the same.
format_month_range_both_years(ms) ==
    IF ms = <<>> THEN <<>>
    ELSE LET start == ms[1]
             end == ms[Len(ms)]
         IN  <<start.thai_name, " ", ToString(start.buddhist_year), " - ",
               end.thai_name, " ", ToString(end.buddhist_year)>>

\* format_month_range (lines 46-69).  The string returned is written as the
\* sequence of the pieces the f-string joins, the empty string as <<>>; the
\* separator " - " stands for the en dash between two spaces (line 59).
format_month_range(ms) ==
    IF ms = <<>> THEN <<>>
    ELSE LET start == ms[1]
             end == ms[Len(ms)]
             sep == " - "
         IN  IF start.buddhist_year = end.buddhist_year
             THEN <<start.thai_name, sep, end.thai_name, " ",
                    ToString(start.buddhist_year)>>
             ELSE <<start.thai_name, " ", ToString(start.buddhist_year), sep,
                    end.thai_name, " ", ToString(end.buddhist_year)>>

Years == {2025, 2026}

LeadValues == (0..MaxLead) \cup {13}

InitMonths ==
    /\ IdleRest
    /\ slides = <<>> /\ masters = <<>> /\ res = NoCall
    /\ fetch = NoFetch
    /\ \E year \in Years, month \in 1..12, leads \in SeqsUpTo(LeadValues, MaxLeads) :
          months = [pc |-> "called", year |-> year, month |-> month,
                    leads |-> leads, out |-> <<>>, range |-> <<>>]

GetMonthsForLeads ==
    /\ months.pc = "called"
    /\ months' = [months EXCEPT
                    !.pc = "returned",
                    !.out = get_months_for_leads(months.year, months.month,
                                                 months.leads)]
    /\ UNCHANGED <<slides, masters, res, fetch, restVars>>

\* format_month_range(months) on the descriptors just computed, as the page
\* tasks call it (tasks.py lines 12-13).
FormatMonthRange ==
    /\ months.pc = "returned"
    /\ months' = [months EXCEPT !.pc = "formatted",
                                !.range = format_month_range(months.out)]
    /\ UNCHANGED <<slides, masters, res, fetch, restVars>>

NextMonths ==
    \/ GetMonthsForLeads
    \/ FormatMonthRange

SpecMonths == InitMonths /\ [][NextMonths]_vars

InitEngine ==
    /\ IdleRest
    /\ \E t \in Templates : slides = t.slides /\ masters = t.masters
    /\ res = NoCall
    /\ fetch = NoFetch
    /\ months = NoMonths

FindSlideByKey ==
    \E key \in Keys :
        LET r == find_slide_by_key(slides, key)
        IN  /\ res' = [NoCall EXCEPT !.op = "find_slide_by_key", !.key = key,
                                     !.exc = r.exc, !.msg = r.msg, !.slide = r.val]
            /\ UNCHANGED <<slides, masters, fetch, months, restVars>>

GetShape ==
    \E s \in 1..Len(slides), name \in SlideShapeNames :
        LET r == get_shape(slides[s], name)
        IN  /\ res' = [NoCall EXCEPT !.op = "get_shape", !.slide = s, !.name = name,
                                     !.exc = r.exc, !.msg = r.msg, !.pos = r.val]
            /\ UNCHANGED <<slides, masters, fetch, months, restVars>>

SetText ==
    \E s \in 1..Len(slides), name \in SlideShapeNames, text \in Texts,
       preserve_format \in BOOLEAN :
        LET r == set_text(slides[s], name, text, preserve_format)
        IN  /\ slides' = [slides EXCEPT ![s] = r.val]
            /\ res' = IF r.exc # ""
                      THEN [NoCall EXCEPT !.op = "set_text", !.slide = s,
                                          !.name = name,
                                          !.exc = r.exc, !.msg = r.msg]
                      ELSE [NoCall EXCEPT !.op = "set_text", !.slide = s,
                                          !.name = name, !.text = text,
                                          !.preserve = preserve_format]
            /\ UNCHANGED <<masters, fetch, months, restVars>>

SetTextOnLayouts ==
    \E name \in LayoutShapeNames, text \in Texts, preserve_format \in BOOLEAN :
        LET r == set_text_on_layouts(masters, name, text, preserve_format)
        IN  /\ masters' = r.val
            /\ res' = IF r.exc # ""
                      THEN [NoCall EXCEPT !.op = "set_text_on_layouts",
                                          !.name = name,
                                          !.exc = r.exc, !.msg = r.msg]
                      ELSE [NoCall EXCEPT !.op = "set_text_on_layouts",
                                          !.name = name, !.text = text,
                                          !.preserve = preserve_format,
                                          !.count = r.count]
            /\ UNCHANGED <<slides, fetch, months, restVars>>

ReplaceImage ==
    \E s \in 1..Len(slides), name \in SlideShapeNames, image \in Images :
        LET r == replace_image(slides[s], name, image)
        IN  /\ slides' = [slides EXCEPT ![s] = r.val]
            /\ res' = IF r.exc # ""
                      THEN [NoCall EXCEPT !.op = "replace_image", !.slide = s,
                                          !.name = name,
                                          !.exc = r.exc, !.msg = r.msg]
                      ELSE [NoCall EXCEPT !.op = "replace_image", !.slide = s,
                                          !.name = name, !.image = image]
            /\ UNCHANGED <<masters, fetch, months, restVars>>

NextEngine ==
    \/ FindSlideByKey
    \/ GetShape
    \/ SetText
    \/ ReplaceImage

Spec == InitEngine /\ [][NextEngine]_vars

\* replace_image when the calls of its try block may raise.
ReplaceImageRestoring ==
    \E s \in 1..Len(slides), name \in SlideShapeNames, image \in Images,
       fault \in Faults :
        LET r == replace_image_restoring(slides[s], name, image, fault)
        IN  /\ slides' = [slides EXCEPT ![s] = r.val]
            /\ res' = IF r.exc # ""
                      THEN [NoCall EXCEPT !.op = "replace_image", !.slide = s,
                                          !.name = name, !.fault = fault,
                                          !.exc = r.exc, !.msg = r.msg]
                      ELSE [NoCall EXCEPT !.op = "replace_image", !.slide = s,
                                          !.name = name, !.fault = fault,
                                          !.image = image]
            /\ UNCHANGED <<masters, fetch, months, restVars>>

InitRestore ==
    /\ IdleRest
    /\ \E t \in ShapeTemplates : slides = t.slides /\ masters = t.masters
    /\ res = NoCall
    /\ fetch = NoFetch
    /\ months = NoMonths

NextRestore == ReplaceImageRestoring

SpecRestore == InitRestore /\ [][NextRestore]_vars

InitLayouts ==
    /\ IdleRest
    /\ \E t \in LayoutTemplates : slides = t.slides /\ masters = t.masters
    /\ res = NoCall
    /\ fetch = NoFetch
    /\ months = NoMonths

NextLayouts == SetTextOnLayouts

SpecLayouts == InitLayouts /\ [][NextLayouts]_vars

(***************************************************************************)
(* The output path resolver (output_manager.py).  A path is the sequence   *)
(* of its components below the working directory; a file name is a string.*)
(***************************************************************************)
Mode == {"prod", "dev"}

OutputSpec(report_type, year, month, mode) ==
    [report_type |-> report_type, year |-> year, month |-> month, mode |-> mode]

\* OutputManager(base_output_dir="output") (main.py line 216)
base_dir == <<"output">>

Parent(path) == SubSeq(path, 1, Len(path) - 1)

\* Path.exists(): a file or a directory of that path.
exists(f, path) == path \in f.dirs \cup f.files

\* Path.mkdir(parents=True, exist_ok=True): raises when the path or one of
\* its parents is a file, and then has created nothing; otherwise the path
\* and its parents are directories afterwards.
mkdir(f, path) ==
    IF path \in f.files
    THEN [exc |-> "FileExistsError", fs |-> f]
    ELSE IF \E k \in 1..(Len(path) - 1) : SubSeq(path, 1, k) \in f.files
    THEN [exc |-> "NotADirectoryError", fs |-> f]
    ELSE [exc |-> "",
          fs |-> [f EXCEPT !.dirs = @ \cup {SubSeq(path, 1, k) : k \in 1..Len(path)}]]

\* str.strip() of a report type: the enumerated types are either blank or
\* free of leading and trailing blanks.
strip(s) == IF s \in {"", " ", "  "} THEN "" ELSE s

\* Variant: month 0 and month 13 pass the validation.
validate_spec_wide_month(spec) ==
    IF spec.report_type = "" \/ strip(spec.report_type) = ""
    THEN [exc |-> "ValueError", msg |-> <<"report_type must be a non-empty string">>]
    ELSE IF ~(0 <= spec.month /\ spec.month <= 13)
    THEN [exc |-> "ValueError",
          msg |-> <<"month must be 1..12 (got ", ToString(spec.month), ")">>]
    ELSE IF spec.year < 1900 \/ spec.year > 3000
    THEN [exc |-> "ValueError",
          msg |-> <<"year looks invalid (got ", ToString(spec.year), ")">>]
    ELSE IF spec.mode \notin {"prod", "dev"}
    THEN [exc |-> "ValueError",
          msg |-> <<"mode must be 'prod' or 'dev' (got ", spec.mode, ")">>]
    ELSE [exc |-> "", msg |-> <<>>]

\* _validate_spec (lines 121-133)
validate_spec(spec) ==
    IF spec.report_type = "" \/ strip(spec.report_type) = ""
    THEN [exc |-> "ValueError", msg |-> <<"report_type must be a non-empty string">>]
    ELSE IF ~(1 <= spec.month /\ spec.month <= 12)
    THEN [exc |-> "ValueError",
          msg |-> <<"month must be 1..12 (got ", ToString(spec.month), ")">>]
    ELSE IF spec.year < 1900 \/ spec.year > 3000
    THEN [exc |-> "ValueError",
          msg |-> <<"year looks invalid (got ", ToString(spec.year), ")">>]
    ELSE IF spec.mode \notin {"prod", "dev"}
    THEN [exc |-> "ValueError",
          msg |-> <<"mode must be 'prod' or 'dev' (got ", spec.mode, ")">>]
    ELSE [exc |-> "", msg |-> <<>>]

\* _get_thai_month_abbr (lines 68-76), transliterated.
get_thai_month_abbr(month_idx) ==
    LET thai_months == <<"", "M.K.", "K.P.", "Mi.K.", "Me.Y.", "P.K.", "Mi.Y.",
                         "K.K.", "S.K.", "K.Y.", "T.K.", "P.Y.", "Th.K.">>
    IN  IF 1 <= month_idx /\ month_idx <= 12 THEN thai_months[month_idx + 1] ELSE ""

\* f"{n:02d}" of a number from 0 to 99.
Pad2(n) == IF n < 10 THEN "0" \o ToString(n) ELSE ToString(n)

PptxSuffix == ".pptx"

\* Variant: the Buddhist year is that of the end month.
OfficialStem_end_year(spec) ==
    LET end_year == IF spec.month + 5 > 12 THEN spec.year + 1 ELSE spec.year
        thai_year_short == Pad2((end_year + 543) % 100)
        end_month == IF (spec.month + 5) % 12 = 0 THEN 12 ELSE (spec.month + 5) % 12
        m_start == get_thai_month_abbr(spec.month)
        m_end == get_thai_month_abbr(end_month)
        topic == IF spec.report_type = "drought" THEN "DroughtMonth" ELSE "Flood"
    IN  ToString(spec.year) \o Pad2(spec.month) \o "_" \o "RiskAreaAnalysis"
            \o topic \o m_start \o "-" \o m_end \o thai_year_short

\* The text of _generate_official_filename before ".pptx" (lines 83-102):
\* str(year + 543)[-2:] are the last two digits of a four-digit year.
OfficialStem(spec) ==
    LET thai_year_short == Pad2((spec.year + 543) % 100)
        end_month == IF (spec.month + 5) % 12 = 0 THEN 12 ELSE (spec.month + 5) % 12
        m_start == get_thai_month_abbr(spec.month)
        m_end == get_thai_month_abbr(end_month)
        topic == IF spec.report_type = "drought" THEN "DroughtMonth" ELSE "Flood"
    IN  ToString(spec.year) \o Pad2(spec.month) \o "_" \o "RiskAreaAnalysis"
            \o topic \o m_start \o "-" \o m_end \o thai_year_short

\* _generate_official_filename (lines 78-102)
generate_official_filename(spec) == OfficialStem(spec) \o PptxSuffix

ReportTypes == {"flood", "drought", "", " "}

OutputYears == {1899, 1900, 2026, 3000, 3001}

OutputMonths == {0, 1, 8, 12, 13}

OutputModes == {"prod", "dev", "test"}

OutputSpecs ==
    {OutputSpec(t, y, m, d) :
        t \in ReportTypes, y \in OutputYears, m \in OutputMonths, d \in OutputModes}

\* Path(filename).stem and Path(filename).suffix (lines 108-109) of an
\* official file name: the text before and from its last dot.
PathStem(filename) ==
    CHOOSE s \in {OfficialStem(sp) : sp \in OutputSpecs} : s \o PptxSuffix = filename

PathSuffix(filename) == PptxSuffix

\* f"{name_stem} ({counter}){suffix}" (line 115)
NumberedName(name_stem, counter, suffix) ==
    name_stem \o " (" \o ToString(counter) \o ")" \o suffix

\* The while loop of _get_unique_filepath (lines 114-117); counter is the
\* value it has when the loop is left.
RECURSIVE unique_loop(_, _, _, _, _, _)
unique_loop(f, directory, name_stem, suffix, counter, final_path) ==
    IF exists(f, final_path)
    THEN unique_loop(f, directory, name_stem, suffix, counter + 1,
                     Append(directory, NumberedName(name_stem, counter, suffix)))
    ELSE [path |-> final_path, counter |-> counter]

\* Variant: the counter starts at 2.
get_unique_filepath_from_two(f, directory, filename) ==
    unique_loop(f, directory, PathStem(filename), PathSuffix(filename), 2,
                Append(directory, filename))

\* Variant: the official name is returned whether it exists or not.
get_unique_filepath_unchecked(f, directory, filename) ==
    [path |-> Append(directory, filename), counter |-> 1]

\* _get_unique_filepath (lines 104-119)
get_unique_filepath(f, directory, filename) ==
    unique_loop(f, directory, PathStem(filename), PathSuffix(filename), 1,
                Append(directory, filename))

\* Variant: the directory levels of the class docstring (lines 25-26).
out_dir_with_year_and_month(spec) ==
    LET dated == base_dir \o <<spec.report_type, ToString(spec.year),
                               ToString(spec.month)>>
    IN  IF spec.mode = "dev" THEN dated \o <<"_dev">> ELSE dated

\* build_output_path lines 53-56: the directory of the output.
out_dir(spec) ==
    IF spec.mode = "dev"
    THEN (base_dir \o <<spec.report_type>>) \o <<"_dev">>
    ELSE base_dir \o <<spec.report_type>>

\* build_output_path (lines 41-64): fs is the file system after the call,
\* probes the number of names found taken.
build_output_path(f, spec) ==
    LET valid == validate_spec(spec)
        made == mkdir(f, out_dir(spec))
        filename == generate_official_filename(spec)
        unique == get_unique_filepath(made.fs, out_dir(spec), filename)
    IN  IF valid.exc # ""
        THEN [exc |-> valid.exc, msg |-> valid.msg, path |-> <<>>, fs |-> f,
              probes |-> 0]
        ELSE IF made.exc # ""
        THEN [exc |-> made.exc, msg |-> <<>>, path |-> <<>>, fs |-> f, probes |-> 0]
        ELSE [exc |-> "", msg |-> <<>>, path |-> unique.path, fs |-> made.fs,
              probes |-> unique.counter - 1]

\* PptEngine.save (ppt_engine.py lines 54-57): the file is written where
\* output_path says, over a file that is already there.
save(f, output_path) ==
    LET made == mkdir(f, Parent(output_path))
    IN  IF made.exc # "" THEN [exc |-> made.exc, fs |-> f]
        ELSE IF output_path \in made.fs.dirs
        THEN [exc |-> "IsADirectoryError", fs |-> made.fs]
        ELSE [exc |-> "", fs |-> [made.fs EXCEPT !.files = @ \cup {output_path}]]

\* The entries of a directory.
Entries(f, directory) ==
    {p \in f.dirs \cup f.files : Len(p) = Len(directory) + 1 /\ Parent(p) = directory}

\* The spec of the scenario: flood, 2026, January, prod.
ScenarioSpec == OutputSpec("flood", 2026, 1, "prod")

\* The official name of a spec and its numbered names, in its directory.
Candidate(spec, k) ==
    Append(out_dir(spec),
           IF k = 0 THEN OfficialStem(spec) \o PptxSuffix
           ELSE NumberedName(OfficialStem(spec), k, PptxSuffix))

\* What the working directory holds before the first call: nothing; the
\* output directory of the scenario, empty or with reports of earlier runs
\* in it, numbered with and without gaps; a directory of the official name;
\* a file where the report type's directory should be.
InitialFileSystems ==
    LET flood_dirs == {<<"output">>, <<"output", "flood">>}
    IN  {NoFiles, [dirs |-> flood_dirs, files |-> {}],
         [dirs |-> flood_dirs \cup {Candidate(ScenarioSpec, 0)}, files |-> {}],
         [dirs |-> {<<"output">>}, files |-> {<<"output", "flood">>}]}
        \cup {[dirs |-> flood_dirs, files |-> {Candidate(ScenarioSpec, k) : k \in ks}] :
                ks \in {{0}, {1}, {0, 1}, {0, 2}}}

\* The engine, the fetcher and the month formatter take no part.
IdleCore ==
    /\ slides = <<>> /\ masters = <<>> /\ res = NoCall
    /\ fetch = NoFetch /\ months = NoMonths

InitOutput ==
    /\ IdleCore /\ run = NoRun /\ app = NoApp
    /\ \E spec \in OutputSpecs, f \in InitialFileSystems :
        /\ fs = f
        /\ outp = [NoOutput EXCEPT !.pc = "idle", !.spec = spec,
                                   !.fresh = (Entries(f, out_dir(spec)) = {})]

\* out_mgr.build_output_path(spec) (main.py line 223)
BuildOutputPath ==
    /\ outp.pc \in {"idle", "returned", "raised", "saved"}
    /\ outp.builds < MaxBuilds
    /\ LET r == build_output_path(fs, outp.spec)
       IN  /\ fs' = r.fs
           /\ outp' = [outp EXCEPT !.pc = IF r.exc = "" THEN "returned" ELSE "raised",
                                   !.exc = r.exc, !.msg = r.msg, !.path = r.path,
                                   !.probes = r.probes, !.builds = @ + 1]
    /\ UNCHANGED <<coreVars, run, app>>

\* The report run saves to the path it was given (manager.py line 93).
SaveReport ==
    /\ outp.pc = "returned"
    /\ LET s == save(fs, outp.path)
       IN  /\ fs' = s.fs
           /\ outp' = [outp EXCEPT !.pc = "saved", !.exc = s.exc,
                                   !.saved = Append(@, outp.path)]
    /\ UNCHANGED <<coreVars, run, app>>

\* Somebody deletes a report between two runs.
DeleteReport ==
    /\ outp.pc = "saved"
    /\ \E p \in fs.files : fs' = [fs EXCEPT !.files = @ \ {p}]
    /\ UNCHANGED <<coreVars, outp, run, app>>

NextOutput ==
    \/ BuildOutputPath
    \/ SaveReport
    \/ DeleteReport

SpecOutput == InitOutput /\ [][NextOutput]_vars

\* The file name of a report and the months of its window, side by side:
\* _generate_official_filename(spec) and get_months_for_leads(year, month,
\* [5]) for every month of years in range.
NameYears == {1900, 1957, 2025, 2026, 2056, 2057, 3000}

InitNames ==
    /\ slides = <<>> /\ masters = <<>> /\ res = NoCall /\ fetch = NoFetch
    /\ fs = NoFiles /\ run = NoRun /\ app = NoApp
    /\ \E report_type \in {"flood", "drought"}, year \in NameYears, month \in 1..12 :
        /\ outp = [NoOutput EXCEPT !.pc = "idle",
                                   !.spec = OutputSpec(report_type, year, month, "prod")]
        /\ months = [pc |-> "called", year |-> year, month |-> month,
                     leads |-> <<5>>, out |-> <<>>, range |-> <<>>]

GenerateOfficialFilename ==
    /\ outp.pc = "idle"
    /\ outp' = [outp EXCEPT !.pc = "named",
                            !.path = <<generate_official_filename(outp.spec)>>]
    /\ UNCHANGED <<coreVars, fs, run, app>>

NextNames ==
    \/ GenerateOfficialFilename
    \/ GetMonthsForLeads

SpecNames == InitNames /\ [][NextNames]_vars

(***************************************************************************)
(* The flood report run (reports/flood/manager.py, reports/flood/tasks.py, *)
(* data_loader.py).  A task's state st holds the document as the calls of  *)
(* the task have left it, the slide the task works on, the exception that  *)
(* ended it, and the URLs it has built.                                    *)
(***************************************************************************)
\* The string an f-string or str.format makes of its pieces.
RECURSIVE JoinFrom(_, _)
JoinFrom(pieces, i) ==
    IF i > Len(pieces) THEN "" ELSE pieces[i] \o JoinFrom(pieces, i + 1)

Join(pieces) == JoinFrom(pieces, 1)

\* f"lead{lead}" (tasks.py lines 70, 81)
LeadKey(lead) == "lead" \o ToString(lead)

Raise(st, exc, msg) == [st EXCEPT !.exc = exc, !.msg = msg]

\* DataLoader(config_path) (data_loader.py lines 6-16): the file must exist.
DataLoader(st, configs, config_path) ==
    IF st.exc # "" THEN st
    ELSE IF config_path \notin configs
    THEN Raise(st, "FileNotFoundError", <<"Config file not found at: ", config_path>>)
    ELSE st

\* get_url (data_loader.py lines 22-48): the pattern is a sequence of
\* pieces, a placeholder being a piece of its own; kwargs maps placeholders
\* to their values.
get_url(source_config, pattern_key, kwargs) ==
    LET raw_pattern == source_config[pattern_key]
        base_url == IF "base_url" \in DOMAIN source_config
                    THEN source_config["base_url"] ELSE ""
        url_template == [k \in 1..Len(raw_pattern) |->
                            IF raw_pattern[k] = "{base_url}" THEN base_url
                            ELSE raw_pattern[k]]
        IsField(piece) == piece \in {"{yyyymm}", "{lead}", "{region}"}
        missing == {k \in 1..Len(url_template) :
                        IsField(url_template[k]) /\ url_template[k] \notin DOMAIN kwargs}
    IN  IF pattern_key \notin DOMAIN source_config
        THEN [exc |-> "KeyError",
              msg |-> <<"Pattern '", pattern_key, "' not found in data_sources config.">>,
              val |-> ""]
        ELSE IF missing # {}
        THEN [exc |-> "ValueError",
              msg |-> <<"Missing parameter for URL pattern '", pattern_key, "': ",
                        url_template[MinOf(missing)]>>,
              val |-> ""]
        ELSE [exc |-> "", msg |-> <<>>,
              val |-> Join([k \in 1..Len(url_template) |->
                              IF IsField(url_template[k]) THEN kwargs[url_template[k]]
                              ELSE url_template[k]])]

\* slide = engine.find_slide_by_key(page_cfg["slide_key"])
FindPage(st, config, page) ==
    IF st.exc # "" THEN st
    ELSE IF <<page, "slide_key">> \notin DOMAIN config.pages
    THEN Raise(st, "KeyError", <<"slide_key">>)
    ELSE LET r == find_slide_by_key(st.slides, config.pages[<<page, "slide_key">>])
         IN  IF r.exc # "" THEN Raise(st, r.exc, r.msg)
             ELSE [st EXCEPT !.slide = r.val]

\* engine.set_text(slide, page_cfg[...], text), preserve_format left at True
SetPageText(st, config, path, text) ==
    IF st.exc # "" THEN st
    ELSE IF path \notin DOMAIN config.pages
    THEN Raise(st, "KeyError", <<path[Len(path)]>>)
    ELSE LET r == set_text(st.slides[st.slide], config.pages[path], text, TRUE)
         IN  IF r.exc # "" THEN Raise(st, r.exc, r.msg)
             ELSE [st EXCEPT !.slides[st.slide] = r.val]

\* Variant: {yyyymm} is the month the lead falls in, not the base month.
ReplacePageImage_lead_month(st, r, page, pattern_key, lead) ==
    LET target == get_months_for_leads(r.year, r.month, <<lead>>)[1]
        url == get_url(r.config.data_sources, pattern_key,
                       [field \in {"{yyyymm}", "{lead}"} |->
                            IF field = "{lead}" THEN ToString(lead)
                            ELSE ToString(target.year) \o Pad2(target.month)])
        image_stream == IF r.net = "up" THEN BytesIO(url.val)
                        ELSE BytesIO("placeholder Lead" \o ToString(lead))
        path == <<page, "images", LeadKey(lead)>>
        replaced == replace_image(st.slides[st.slide], r.config.pages[path],
                                  image_stream.content)
    IN  IF st.exc # "" THEN st
        ELSE IF url.exc # "" THEN Raise(st, url.exc, url.msg)
        ELSE IF path \notin DOMAIN r.config.pages
        THEN Raise([st EXCEPT !.urls = Append(@, url.val)], "KeyError",
                   <<LeadKey(lead)>>)
        ELSE IF replaced.exc # ""
        THEN Raise([st EXCEPT !.urls = Append(@, url.val)], replaced.exc, replaced.msg)
        ELSE [st EXCEPT !.slides[st.slide] = replaced.val,
                        !.urls = Append(@, url.val)]

\* loader.get_url, img_handler.get_image, engine.replace_image of one lead
\* (tasks.py lines 74-82, 147-156): get_image gives the body fetched from
\* the URL, or the placeholder with the lead as its caption.
ReplacePageImage(st, r, page, pattern_key, lead) ==
    LET url == get_url(r.config.data_sources, pattern_key,
                       [field \in {"{yyyymm}", "{lead}"} |->
                            IF field = "{lead}" THEN ToString(lead)
                            ELSE ToString(r.year) \o Pad2(r.month)])
        image_stream == IF r.net = "up" THEN BytesIO(url.val)
                        ELSE BytesIO("placeholder Lead" \o ToString(lead))
        path == <<page, "images", LeadKey(lead)>>
        replaced == replace_image(st.slides[st.slide], r.config.pages[path],
                                  image_stream.content)
    IN  IF st.exc # "" THEN st
        ELSE IF url.exc # "" THEN Raise(st, url.exc, url.msg)
        ELSE IF path \notin DOMAIN r.config.pages
        THEN Raise([st EXCEPT !.urls = Append(@, url.val)], "KeyError",
                   <<LeadKey(lead)>>)
        ELSE IF replaced.exc # ""
        THEN Raise([st EXCEPT !.urls = Append(@, url.val)], replaced.exc, replaced.msg)
        ELSE [st EXCEPT !.slides[st.slide] = replaced.val,
                        !.urls = Append(@, url.val)]

\* update_footer (tasks.py lines 11-16)
update_footer(st, r) ==
    LET months_6 == get_months_for_leads(r.year, r.month, <<0, 1, 2, 3, 4, 5>>)
        month_range == format_month_range(months_6)
        footer_text == <<" | FloodRiskAreaAnalysisMonth" \o Join(month_range)>>
        updated == set_text_on_layouts(st.masters, "Txt_Footer", footer_text, TRUE)
    IN  IF updated.exc # ""
        THEN Raise([st EXCEPT !.masters = updated.val], updated.exc, updated.msg)
        ELSE [st EXCEPT !.masters = updated.val]

\* update_cover (tasks.py lines 19-38)
update_cover(st, r) ==
    LET found == FindPage(st, r.config, "cover")
        months_6 == get_months_for_leads(r.year, r.month, <<0, 1, 2, 3, 4, 5>>)
        period == SetPageText(found, r.config, <<"cover", "report_period_shape">>,
                              <<Join(format_month_range(months_6))>>)
        lead0 == get_months_for_leads(r.year, r.month, <<0>>)[1]
        issue_text == <<"1 " \o lead0.thai_name \o " " \o ToString(lead0.buddhist_year)>>
    IN  SetPageText(period, r.config, <<"cover", "issue_date_shape">>, issue_text)

\* The for loop of the rain forecast tasks (tasks.py lines 68-82, 105-118)
\* from its i-th lead on.
RECURSIVE RainLoop(_, _, _, _, _, _)
RainLoop(st, r, page, leads, months_of, i) ==
    IF i > Len(leads) \/ st.exc # "" THEN st
    ELSE LET labelled == SetPageText(st, r.config,
                                     <<page, "labels", LeadKey(leads[i])>>,
                                     <<months_of[i].thai_name>>)
             replaced == ReplacePageImage(labelled, r, page, "rain_pattern", leads[i])
         IN  RainLoop(replaced, r, page, leads, months_of, i + 1)

\* update_rain_forecast_part1 and _part2 (tasks.py lines 48-82, 85-118):
\* the tasks make a DataLoader of their own, on "config.yaml".
update_rain_forecast(st, r, page, leads) ==
    LET found == FindPage(st, r.config, page)
        loader == DataLoader(found, r.configs, "config.yaml")
        months_of == get_months_for_leads(r.year, r.month, leads)
        title_text == <<"RainForecastMonth" \o Join(format_month_range(months_of))
                            \o " from ONEMAP">>
        titled == SetPageText(loader, r.config, <<page, "title_shape">>, title_text)
    IN  RainLoop(titled, r, page, leads, months_of, 1)

update_rain_forecast_part1(st, r) ==
    update_rain_forecast(st, r, "rain_forecast_part1", <<0, 1, 2>>)

update_rain_forecast_part2(st, r) ==
    update_rain_forecast(st, r, "rain_forecast_part2", <<3, 4, 5>>)

\* The for loop of update_risk_forecast (tasks.py lines 146-156).
RECURSIVE RiskLoop(_, _, _, _)
RiskLoop(st, r, leads, i) ==
    IF i > Len(leads) \/ st.exc # "" THEN st
    ELSE RiskLoop(ReplacePageImage(st, r, "risk_forecast", "risk_pattern", leads[i]),
                  r, leads, i + 1)

\* update_risk_forecast (tasks.py lines 121-156)
update_risk_forecast(st, r) ==
    LET leads == <<0, 1, 2, 3, 4, 5>>
        found == FindPage(st, r.config, "risk_forecast")
        loader == DataLoader(found, r.configs, "config.yaml")
        months_of == get_months_for_leads(r.year, r.month, leads)
        title_text == <<"FloodRiskForecastSummaryMonth"
                            \o Join(format_month_range(months_of))>>
        titled == SetPageText(loader, r.config, <<"risk_forecast", "title_shape">>,
                              title_text)
    IN  RiskLoop(titled, r, leads, 1)

\* The pages of the flood report in the order of their slides, and the
\* leads of each.
ReportPages == <<"cover", "rain_forecast_part1", "rain_forecast_part2", "risk_forecast">>

PageLeads(page) ==
    IF page = "rain_forecast_part1" THEN <<0, 1, 2>>
    ELSE IF page = "rain_forecast_part2" THEN <<3, 4, 5>>
    ELSE IF page = "risk_forecast" THEN <<0, 1, 2, 3, 4, 5>>
    ELSE <<>>

\* The key paths of config["flood_report"]["pages"].
ConfigPaths ==
    {<<page, "slide_key">> : page \in Range(ReportPages)}
    \cup {<<"cover", key>> : key \in {"report_period_shape", "issue_date_shape"}}
    \cup {<<page, "title_shape">> : page \in Range(ReportPages) \ {"cover"}}
    \cup UNION {{<<page, "labels", LeadKey(l)>> : l \in Range(PageLeads(page))} :
                    page \in {"rain_forecast_part1", "rain_forecast_part2"}}
    \cup UNION {{<<page, "images", LeadKey(l)>> : l \in Range(PageLeads(page))} :
                    page \in Range(ReportPages)}

\* A configuration whose slide keys are the page names and whose shape
\* names tell the lead.
ConfigValue(path) ==
    IF path[2] = "slide_key" THEN path[1]
    ELSE IF path[2] = "title_shape" THEN "Txt_Title"
    ELSE IF path[2] = "report_period_shape" THEN "Txt_Period"
    ELSE IF path[2] = "issue_date_shape" THEN "Txt_Issue"
    ELSE IF path[2] = "labels" THEN "Txt_" \o path[3]
    ELSE "Img_" \o path[3]

DataSources ==
    [key \in {"base_url", "rain_pattern", "risk_pattern"} |->
        IF key = "base_url" THEN "http://host"
        ELSE IF key = "rain_pattern"
        THEN <<"{base_url}", "/rain/", "{yyyymm}", "/lead", "{lead}", ".png">>
        ELSE <<"{base_url}", "/risk/", "{yyyymm}", "/lead", "{lead}", ".png">>]

\* What can be wrong with the template or the configuration of a run.
Defect(kind, slide, name, path) ==
    [kind |-> kind, slide |-> slide, name |-> name, path |-> path]

\* The shapes of the slide of a page: the anchor, the title, and a label
\* and a picture for each lead (the risk page has no labels).
PageSpecs(page) ==
    LET leads == PageLeads(page)
        anchor == <<<<SLIDE_KEY_PREFIX \o page, "TEXT_BOX">>>>
    IN  IF page = "cover"
        THEN anchor \o <<<<"Txt_Period", "TEXT_BOX">>, <<"Txt_Issue", "TEXT_BOX">>>>
        ELSE IF page = "risk_forecast"
        THEN (anchor \o <<<<"Txt_Title", "TEXT_BOX">>>>)
             \o [k \in 1..Len(leads) |-> <<"Img_" \o LeadKey(leads[k]), "PICTURE">>]
        ELSE (anchor \o <<<<"Txt_Title", "TEXT_BOX">>>>)
             \o [k \in 1..(2 * Len(leads)) |->
                    IF k % 2 = 1
                    THEN <<"Txt_" \o LeadKey(leads[(k + 1) \div 2]), "TEXT_BOX">>
                    ELSE <<"Img_" \o LeadKey(leads[k \div 2]), "PICTURE">>]

Defects ==
    {Defect("none", 0, "", <<>>), Defect("no_footer", 0, "", <<>>),
     Defect("footer_group", 0, "", <<>>), Defect("no_template", 0, "", <<>>)}
    \cup {Defect(kind, i, PageSpecs(ReportPages[i])[j][1], <<>>) :
            kind \in {"missing", "retyped"},
            i \in 1..Len(ReportPages), j \in 1..3}
    \cup {Defect(kind, Len(ReportPages), "Img_lead5", <<>>) : kind \in {"missing", "retyped"}}
    \cup {Defect("unconfigured", 0, "", path) : path \in ConfigPaths}
    \cup {Defect("no_pattern", 0, key, <<>>) : key \in {"rain_pattern", "risk_pattern"}}

\* The slides of the template of a run.
ReportSlides(defect) ==
    [i \in 1..Len(ReportPages) |->
        LET specs == PageSpecs(ReportPages[i])
        IN  TemplateSlide(i,
                IF defect.kind = "missing" /\ defect.slide = i
                THEN SelectSeq(specs, LAMBDA s : s[1] # defect.name)
                ELSE IF defect.kind = "retyped" /\ defect.slide = i
                THEN [j \in 1..Len(specs) |->
                        IF specs[j][1] = defect.name THEN <<defect.name, "GROUP">>
                        ELSE specs[j]]
                ELSE specs)]

\* Its master: two layouts with a footer.
ReportMasters(defect) ==
    LET footer == IF defect.kind = "no_footer" THEN <<"Other", "TEXT_BOX">>
                  ELSE IF defect.kind = "footer_group" THEN <<"Txt_Footer", "GROUP">>
                  ELSE <<"Txt_Footer", "TEXT_BOX">>
        first == IF defect.kind = "no_footer" THEN <<"Other", "TEXT_BOX">>
                 ELSE <<"Txt_Footer", "TEXT_BOX">>
    IN  <<<<TemplateLayout(<<first>>),
            TemplateLayout(<<footer, <<"Other", "TEXT_BOX">>>>)>>>>

\* config["flood_report"] of a run.
ReportConfig(defect) ==
    [template_path |-> "template.pptx",
     data_sources |-> [key \in (DOMAIN DataSources) \ {defect.name} |-> DataSources[key]],
     pages |-> [path \in ConfigPaths \ {defect.path} |-> ConfigValue(path)]]

\* The tasks in the order generate_flood_report calls them, and save.
Tasks == <<"footer", "cover", "rain1", "rain2", "risk">>

\* Variant: a task that raised is followed by the next one all the same.
after_task_swallowing(task, exc) ==
    LET k == CHOOSE j \in 1..Len(Tasks) : Tasks[j] = task
    IN  IF k = Len(Tasks) THEN "save" ELSE Tasks[k + 1]

\* manager.py lines 58-93: an exception of a task leaves
\* generate_flood_report; otherwise the next task, or save, follows.
after_task(task, exc) ==
    LET k == CHOOSE j \in 1..Len(Tasks) : Tasks[j] = task
    IN  IF exc # "" THEN "failed"
        ELSE IF k = Len(Tasks) THEN "save" ELSE Tasks[k + 1]

\* The files of configurations: the one the run is given and the one the
\* page tasks load.
ConfigFiles ==
    {[config_path |-> "config.yaml", configs |-> {"config.yaml"}],
     [config_path |-> "config.yaml", configs |-> {}],
     [config_path |-> "custom.yaml", configs |-> {"config.yaml", "custom.yaml"}],
     [config_path |-> "custom.yaml", configs |-> {"custom.yaml"}]}

RunDates == {<<2026, 1>>, <<2025, 10>>}

\* generate_flood_report(year, month, output_path, config_path) is called
\* with a path build_output_path has returned.
InitRun ==
    /\ res = NoCall /\ fetch = NoFetch /\ months = NoMonths
    /\ outp = NoOutput /\ app = NoApp
    /\ \E defect \in Defects, files \in ConfigFiles, date \in RunDates,
          net \in {"up", "down"} :
        LET built == build_output_path(NoFiles, OutputSpec("flood", date[1], date[2], "prod"))
        IN  /\ slides = ReportSlides(defect)
            /\ masters = ReportMasters(defect)
            /\ fs = built.fs
            /\ run = [NoRun EXCEPT !.pc = "load", !.year = date[1], !.month = date[2],
                                   !.output_path = built.path,
                                   !.config_path = files.config_path,
                                   !.configs = files.configs,
                                   !.templates = IF defect.kind = "no_template" THEN {}
                                                 ELSE {"template.pptx"},
                                   !.config = ReportConfig(defect), !.net = net]

\* The state a task starts in.
TaskState ==
    [exc |-> "", msg |-> <<>>, slides |-> slides, masters |-> masters, slide |-> 0,
     urls |-> run.urls]

\* What a task leaves behind, whether it returned or raised.
TaskDone(task, st) ==
    /\ slides' = st.slides
    /\ masters' = st.masters
    /\ run' = [run EXCEPT !.pc = after_task(task, st.exc),
                          !.done = IF st.exc = "" THEN Append(@, task) ELSE @,
                          !.exc = st.exc, !.msg = st.msg, !.urls = st.urls]

\* manager.py lines 44-52: DataLoader(config_path), PptEngine(template_path)
LoadResources ==
    /\ run.pc = "load"
    /\ LET loaded == DataLoader(TaskState, run.configs, run.config_path)
           opened == IF loaded.exc # "" THEN loaded
                     ELSE IF run.config.template_path \notin run.templates
                     THEN Raise(loaded, "FileNotFoundError",
                                <<"Template not found: ", run.config.template_path>>)
                     ELSE loaded
       IN  run' = [run EXCEPT !.pc = IF opened.exc # "" THEN "failed" ELSE Tasks[1],
                              !.exc = opened.exc, !.msg = opened.msg]
    /\ UNCHANGED <<slides, masters, res, fetch, months, fs, outp, app>>

UpdateFooter ==
    /\ run.pc = "footer"
    /\ TaskDone("footer", update_footer(TaskState, run))
    /\ UNCHANGED <<res, fetch, months, fs, outp, app>>

UpdateCover ==
    /\ run.pc = "cover"
    /\ TaskDone("cover", update_cover(TaskState, run))
    /\ UNCHANGED <<res, fetch, months, fs, outp, app>>

UpdateRainForecastPart1 ==
    /\ run.pc = "rain1"
    /\ TaskDone("rain1", update_rain_forecast_part1(TaskState, run))
    /\ UNCHANGED <<res, fetch, months, fs, outp, app>>

UpdateRainForecastPart2 ==
    /\ run.pc = "rain2"
    /\ TaskDone("rain2", update_rain_forecast_part2(TaskState, run))
    /\ UNCHANGED <<res, fetch, months, fs, outp, app>>

UpdateRiskForecast ==
    /\ run.pc = "risk"
    /\ TaskDone("risk", update_risk_forecast(TaskState, run))
    /\ UNCHANGED <<res, fetch, months, fs, outp, app>>

\* engine.save(output_path) (manager.py line 93)
Save ==
    /\ run.pc = "save"
    /\ LET s == save(fs, run.output_path)
       IN  /\ fs' = s.fs
           /\ run' = [run EXCEPT !.pc = IF s.exc # "" THEN "failed" ELSE "done",
                                 !.saves = @ + 1, !.exc = s.exc]
    /\ UNCHANGED <<slides, masters, res, fetch, months, outp, app>>

NextRun ==
    \/ LoadResources
    \/ UpdateFooter
    \/ UpdateCover
    \/ UpdateRainForecastPart1
    \/ UpdateRainForecastPart2
    \/ UpdateRiskForecast
    \/ Save

SpecRun == InitRun /\ [][NextRun]_vars

(***************************************************************************)
(* The application: main() of src/main.py and the launcher run_app.py.     *)
(* An option of the command line that was not given is None, written <<>>; *)
(* one that was given is <<value>>.  The report run itself is the run of   *)
(* SpecRun; here it either returns, having saved the report, or raises.    *)
(***************************************************************************)
\* bool(x) of an option of type int: None and 0 are false.
TruthyInt(opt) == opt # <<>> /\ opt[1] # 0

\* bool(x) of an option of type str: None and "" are false.
TruthyStr(opt) == opt # <<>> /\ opt[1] # ""

\* Variant: the options are tested for being given.
is_cli_automation_given(args) ==
    args.report # <<>> /\ args.year # <<>> /\ args.month # <<>>

\* is_cli_automation = (args.report and args.year and args.month)
\* (main.py line 149), as the if statements of lines 164, 252, 256 read it.
is_cli_automation(args) ==
    TruthyStr(args.report) /\ TruthyInt(args.year) /\ TruthyInt(args.month)

\* int(text) (main.py lines 181-182): <<n>>, or <<>> for ValueError.
int(text) ==
    CASE text = "2026" -> <<2026>>
      [] text = "0" -> <<0>>
      [] text = "8" -> <<8>>
      [] text = "13" -> <<13>>
      [] OTHER -> <<>>

\* --report has choices drought and flood; --year and --month are integers.
ReportOptions == {<<>>, <<"flood">>, <<"drought">>}
YearOptions == {<<>>, <<0>>, <<2026>>}
MonthOptions == {<<>>, <<0>>, <<8>>, <<13>>}

\* What the user answers to the prompts.
Choices == {"0", "1", "2"}
PromptedYears == {2026}
PromptedMonths == {0, 8}
TypedReports == {"flood", "x"}
TypedNumbers == {"2026", "8", "abc"}

\* REPORT_GENERATORS (main.py lines 225-228)
REPORT_GENERATORS == {"flood", "drought"}

\* python -m src.main, or the launcher run_app.py
EntryPoints == {"main", "run_app"}

InitApp ==
    /\ IdleCore /\ outp = NoOutput /\ run = NoRun
    /\ fs = NoFiles
    /\ \E report \in ReportOptions, year \in YearOptions, month \in MonthOptions,
          rich \in BOOLEAN, entry \in EntryPoints :
        app = [NoApp EXCEPT !.pc = "params", !.entry = entry, !.rich = rich,
                            !.args = [report |-> report, year |-> year,
                                      month |-> month, dev |-> FALSE],
                            !.exit_reason = "NORMAL"]

\* main.py lines 164-167: the parameters are the options.
TakeOptions ==
    /\ app.pc = "params"
    /\ is_cli_automation(app.args)
    /\ app' = [app EXCEPT !.pc = "generate", !.report_type = app.args.report[1],
                          !.year = app.args.year[1], !.month = app.args.month[1]]
    /\ UNCHANGED <<coreVars, fs, outp, run>>

\* main.py lines 170-176 and interactive_mode (lines 73-129): the menu, and
\* unless the user chooses 0, the prompts for year and month.
InteractiveMode ==
    /\ app.pc = "params"
    /\ ~is_cli_automation(app.args)
    /\ app.rich
    /\ \E choice \in Choices :
        IF choice = "0"
        THEN app' = [app EXCEPT !.pc = "return", !.exit_reason = "USER_EXIT",
                                !.prompts = @ + 1]
        ELSE /\ app.prompts < MaxIterations
             /\ \E year \in PromptedYears, month \in PromptedMonths :
                 app' = [app EXCEPT !.pc = "generate", !.prompts = @ + 1,
                                    !.report_type = IF choice = "1" THEN "drought"
                                                    ELSE "flood",
                                    !.year = year, !.month = month]
    /\ UNCHANGED <<coreVars, fs, outp, run>>

\* main.py lines 177-182: without Rich the three values are typed in; int()
\* raises ValueError on text that is no integer.
StandardInput ==
    /\ app.pc = "params"
    /\ ~is_cli_automation(app.args)
    /\ ~app.rich
    /\ app.prompts < MaxIterations
    /\ \E report \in TypedReports, y \in TypedNumbers, m \in TypedNumbers :
        LET year == int(y)
            month == int(m)
        IN  IF year = <<>> \/ month = <<>>
            THEN app' = [app EXCEPT !.pc = "except", !.exc = "ValueError",
                                    !.prompts = @ + 1, !.report_type = strip(report)]
            ELSE app' = [app EXCEPT !.pc = "generate", !.prompts = @ + 1,
                                    !.report_type = strip(report),
                                    !.year = year[1], !.month = month[1]]
    /\ UNCHANGED <<coreVars, fs, outp, run>>

\* main.py lines 216-242: the output path is built, the generator of the
\* report type is looked up and called, and the output folder is opened.
Generate ==
    /\ app.pc = "generate"
    /\ LET spec == OutputSpec(app.report_type, app.year, app.month,
                              IF app.args.dev THEN "dev" ELSE "prod")
           built == build_output_path(fs, spec)
       IN  IF built.exc # ""
           THEN /\ fs' = built.fs
                /\ app' = [app EXCEPT !.pc = "except", !.exc = built.exc]
           ELSE IF app.report_type \notin REPORT_GENERATORS
           THEN /\ fs' = built.fs
                /\ app' = [app EXCEPT !.pc = "except", !.exc = "KeyError",
                                      !.output_path = built.path]
           ELSE \/ \E exc \in {"ShapeNotFoundError", "FileNotFoundError"} :
                     /\ fs' = built.fs
                     /\ app' = [app EXCEPT !.pc = "except", !.exc = exc,
                                           !.runs = @ + 1,
                                           !.output_path = built.path]
                \/ \E popen \in {"", "OSError"} :
                     /\ fs' = save(built.fs, built.path).fs
                     /\ app' = [app EXCEPT !.pc = IF popen = "" THEN "end"
                                                  ELSE "except",
                                           !.exc = popen, !.runs = @ + 1,
                                           !.opened = @ + (IF popen = "" THEN 1 ELSE 0),
                                           !.output_path = built.path]
    /\ UNCHANGED <<coreVars, outp, run>>

\* main.py lines 244-253: the failure is logged; in automation mode exit(1)
\* raises SystemExit, which run_app.py's except Exception lets pass.  The
\* pause of line 249 waits for Enter and changes nothing.
HandleError ==
    /\ app.pc = "except"
    /\ app' = IF is_cli_automation(app.args)
              THEN [app EXCEPT !.pc = "exited", !.failures = @ + 1, !.status = 1]
              ELSE [app EXCEPT !.pc = "end", !.failures = @ + 1]
    /\ UNCHANGED <<coreVars, fs, outp, run>>

\* main.py lines 256-257: the loop is left in automation mode, else repeated.
EndOfPass ==
    /\ app.pc = "end"
    /\ app' = [app EXCEPT !.pc = IF is_cli_automation(app.args) THEN "return"
                                 ELSE "params",
                          !.exc = ""]
    /\ UNCHANGED <<coreVars, fs, outp, run>>

\* main.py lines 259-264 and run_app.py lines 13-20: main returns and the
\* process ends with status 0.
Return ==
    /\ app.pc = "return"
    /\ app' = [app EXCEPT !.pc = "exited", !.status = 0]
    /\ UNCHANGED <<coreVars, fs, outp, run>>

NextApp ==
    \/ TakeOptions
    \/ InteractiveMode
    \/ StandardInput
    \/ Generate
    \/ HandleError
    \/ EndOfPass
    \/ Return

SpecApp == InitApp /\ [][NextApp]_vars

(***************************************************************************)
(* Vocabulary of the claims about the engine.                              *)
(***************************************************************************)
HasAnchor(slide, key) ==
    \E k \in 1..Len(slide.shapes) : slide.shapes[k].name = "SLIDE_KEY_" \o key

RunTextsOf(p) == LET r == Runs(p) IN [i \in 1..Len(r) |-> r[i].text]

RECURSIVE SumLens(_, _)
SumLens(tf, k) == IF k > Len(tf) THEN 0 ELSE Len(Runs(tf[k])) + SumLens(tf, k + 1)

TotalRuns(tf) == SumLens(tf, 1)

RunsHolding(tf, text) ==
    UNION {{<<p, i>> : i \in {k \in 1..Len(tf[p]) :
                                  tf[p][k].kind = "r" /\ tf[p][k].text = text}} :
           p \in 1..Len(tf)}

NonEmptyLines(text) == Cardinality({k \in 1..Len(text) : text[k] # ""})

\* A step that is a normal return of set_text(slide, name, text, True).
PreserveStep == res'.op = "set_text" /\ res'.exc = "" /\ res'.preserve

\* The position of the shape a step's call acts on, and its text frame
\* before and after the step.
TargetPos == get_shape(slides[res'.slide], res'.name).val

FrameBefore == slides[res'.slide].shapes[TargetPos].tf

FrameAfter == slides'[res'.slide].shapes[TargetPos].tf

\* A step that is a normal return of replace_image.
ReplaceStep == res'.op = "replace_image" /\ res'.exc = ""

Geoms(shapes) == [k \in 1..Len(shapes) |-> Geometry(shapes[k])]

\* C1: find_slide_by_key(key) returns the first slide, in document order,
\* with a shape named SLIDE_KEY_<key>, and raises SlideNotFoundError with
\* the anchor name in its message when there is none; it changes nothing.
C1_FindSlideByKey ==
    /\ [](res.op = "find_slide_by_key" =>
            IF \E i \in 1..Len(slides) : HasAnchor(slides[i], res.key)
            THEN /\ res.exc = ""
                 /\ res.slide \in 1..Len(slides)
                 /\ HasAnchor(slides[res.slide], res.key)
                 /\ \A j \in 1..(res.slide - 1) : ~HasAnchor(slides[j], res.key)
            ELSE /\ res.exc = "SlideNotFoundError"
                 /\ \E q \in 1..Len(res.msg) : res.msg[q] = "SLIDE_KEY_" \o res.key)
    /\ [][res'.op = "find_slide_by_key" => slides' = slides /\ masters' = masters]_vars

\* A lookup that succeeded on a document where two slides carry the anchor,
\* after a replace_image call removed a shape of the first slide.
C1_Witness ==
    /\ res.op = "find_slide_by_key" /\ res.exc = "" /\ res.slide = 1
    /\ Cardinality({i \in 1..Len(slides) : HasAnchor(slides[i], res.key)}) = 2
    /\ \E k \in 1..Len(slides[1].shapes) : slides[1].shapes[k].image = "imgA"

\* C2: set_text with preserve_format=True on a frame whose first paragraph
\* has a run puts the text into the first run of the first paragraph,
\* empties every other run, and keeps the number of paragraphs and the
\* number of runs of each paragraph.
C2_PreserveKeepsStructure ==
    [][(PreserveStep /\ Len(FrameBefore) >= 1 /\ Len(Runs(FrameBefore[1])) >= 1) =>
        /\ Len(FrameAfter) = Len(FrameBefore)
        /\ \A p \in 1..Len(FrameBefore) :
              /\ Len(Runs(FrameAfter[p])) = Len(Runs(FrameBefore[p]))
              /\ \A i \in 1..Len(Runs(FrameAfter[p])) :
                    RunTextsOf(FrameAfter[p])[i] =
                        IF p = 1 /\ i = 1 THEN res'.text ELSE EmptyStr]_vars

\* The text "B" was just set, preserving the format, on a frame of two
\* paragraphs whose first paragraph has two runs.
C2_Witness ==
    /\ res.op = "set_text" /\ res.exc = "" /\ res.preserve /\ res.text = <<"B">>
    /\ \E k \in 1..Len(slides[res.slide].shapes) :
          LET tf == slides[res.slide].shapes[k].tf
          IN  /\ slides[res.slide].shapes[k].name = res.name
              /\ Len(tf) = 2 /\ Len(Runs(tf[1])) = 2 /\ Len(Runs(tf[2])) >= 1
              /\ tf[1][1].text = <<"B">> /\ tf[1][2].text = EmptyStr

C4_NoResidualText ==
    [][PreserveStep =>
        \A p \in 1..Len(FrameAfter) : \A i \in 1..Len(FrameAfter[p]) :
            (/\ p <= Len(FrameBefore) /\ i <= Len(FrameBefore[p])
             /\ FrameAfter[p][i].kind = "r" /\ FrameBefore[p][i].kind = "r"
             /\ ~(p = 1 /\ RunsBefore(FrameAfter[p], i) = 0))
            => FrameAfter[p][i].text = EmptyStr]_vars

\* C5: replace_image gives the new picture the left, top, width and height
\* of the shape it replaces and changes the geometry of no other shape, on
\* that slide or another.
C5_GeometryPreserved ==
    [][ReplaceStep =>
        LET s == res'.slide
            old == slides[s].shapes
            new == slides'[s].shapes
        IN  /\ \E j \in 1..Len(new) :
                  /\ new[j].shape_type = "PICTURE" /\ new[j].image = res'.image
                  /\ Geometry(new[j]) = Geometry(old[TargetPos])
                  /\ Len(new) = Len(old)
                  /\ RemoveAt(Geoms(new), j) = RemoveAt(Geoms(old), TargetPos)
            /\ \A t \in 1..Len(slides) : t # s => slides'[t] = slides[t]
            /\ Len(slides') = Len(slides)]_vars

\* A picture that was not the only shape of its slide has just been replaced.
C5_Witness ==
    /\ res.op = "replace_image" /\ res.exc = ""
    /\ Len(slides[res.slide].shapes) >= 2
    /\ \E k \in 1..Len(slides[res.slide].shapes) :
          slides[res.slide].shapes[k].image = res.image

\* C6: replace_image leaves the new picture at the sibling index the old
\* shape had, keeps the number of shapes of the slide, and keeps every other
\* shape where it was.
C6_ZOrderRestored ==
    [][ReplaceStep =>
        LET s == res'.slide
            old == slides[s].shapes
            new == slides'[s].shapes
        IN  /\ Len(new) = Len(old)
            /\ new[TargetPos].shape_type = "PICTURE"
            /\ new[TargetPos].image = res'.image
            /\ \A k \in 1..Len(old) : k # TargetPos => new[k] = old[k]]_vars

\* Two pictures of one slide have been replaced, one call after the other,
\* and the one replaced last is the bottom shape.
C6_Witness ==
    /\ res.op = "replace_image" /\ res.exc = "" /\ res.name = "SLIDE_KEY_a"
    /\ Len(slides[res.slide].shapes) >= 2
    /\ slides[res.slide].shapes[1].image = "imgA"
    /\ slides[res.slide].shapes[2].image = "imgA"
    /\ slides[res.slide].shapes[1].id > slides[res.slide].shapes[2].id

\* The cause of the failure a call ended with, read from its message.
CauseOf(r) ==
    IF r.op = "find_slide_by_key" THEN "slide-not-found"
    ELSE IF \E q \in 1..Len(r.msg) : r.msg[q] = "' not found on slide_id="
    THEN "shape-not-found"
    ELSE IF \E q \in 1..Len(r.msg) : r.msg[q] = "' is not a picture (type="
    THEN "wrong-shape-type"
    ELSE IF \E q \in 1..Len(r.msg) : r.msg[q] = "' has no text frame"
    THEN "no-text-frame"
    ELSE "other"

\* C7, as claimed: two failures of different causes (slide not found, shape
\* not found, wrong shape type, no text frame) never have the same error
\* kind.
C7_DistinctErrorKinds ==
    [][(/\ res.exc # "" /\ res'.exc # ""
        /\ CauseOf(res) # "other" /\ CauseOf(res') # "other"
        /\ CauseOf(res) # CauseOf(res'))
       => res.exc # res'.exc]_vars

(***************************************************************************)
(* Claims about the image fetcher.                                         *)
(***************************************************************************)
TransientFailure(outcome) ==
    outcome \in {"500", "502", "503", "504", "connect_error", "read_timeout"}

C9_BoundedRetry ==
    /\ [](fetch.attempts <= fetch.retries + 1)
    /\ [][(fetch.pc = "sending" /\ fetch'.pc = "sending") =>
            /\ TransientFailure(fetch'.outcome)
            /\ fetch'.attempts <= fetch.retries]_vars
    /\ [][(fetch.pc = "sending" /\ fetch'.outcome = "404") =>
            fetch'.pc = "responded"]_vars
    /\ ((fetch.pc = "sending") ~> (fetch.pc = "done"))
    /\ [](fetch.pc = "done" =>
            fetch.stream.content \in {fetch.body, "placeholder", "pixel"})

\* A fetch with the default budget of 3 retries that ended after 4 attempts,
\* all of them connection errors.
C9_Witness ==
    /\ fetch.pc = "done" /\ fetch.retries = 3 /\ fetch.attempts = 4
    /\ fetch.outcome = "connect_error" /\ fetch.connect = -1 /\ fetch.total = -1

(***************************************************************************)
(* Claims about the month formatter.                                       *)
(***************************************************************************)
\* C10: get_months_for_leads(year, month, leads) returns one descriptor per
\* lead, in the order of leads: month ((month - 1 + lead) mod 12) + 1 of
\* year + ((month - 1 + lead) div 12), with that year + 543 as Buddhist
\* year and the Thai name of that month; (2026, 1, [0, 1, 2]) gives
\* 2026-01, 2026-02, 2026-03, all of Buddhist year 2569.
C10_MonthsForLeads ==
    months.pc = "returned" =>
        /\ Len(months.out) = Len(months.leads)
        /\ \A j \in 1..Len(months.leads) :
              LET ahead == months.month - 1 + months.leads[j]
                  d == months.out[j]
              IN  /\ d.month = (ahead % 12) + 1
                  /\ d.year = months.year + (ahead \div 12)
                  /\ d.buddhist_year = d.year + 543
                  /\ d.thai_name = THAI_MONTHS[d.month]
        /\ (months.year = 2026 /\ months.month = 1 /\ months.leads = <<0, 1, 2>>) =>
              months.out =
                <<[year |-> 2026, month |-> 1, thai_name |-> "Makarakhom",
                   buddhist_year |-> 2569],
                  [year |-> 2026, month |-> 2, thai_name |-> "Kumphaphan",
                   buddhist_year |-> 2569],
                  [year |-> 2026, month |-> 3, thai_name |-> "Minakhom",
                   buddhist_year |-> 2569]>>

\* Leads that are not in increasing order and reach into the next year and
\* the one after it.
C10_Witness ==
    /\ months.pc = "returned" /\ months.year = 2026 /\ months.month = 12
    /\ months.leads = <<13, 0, 1>>
    /\ months.out[1].year = 2028 /\ months.out[1].month = 1
    /\ months.out[2].year = 2026 /\ months.out[2].month = 12
    /\ months.out[3].year = 2027 /\ months.out[3].thai_name = "Makarakhom"

\* The place of a descriptor in time, counted in months.
MonthOrdinal(d) == d.year * 12 + d.month

\* C11 as claimed: for every list of offsets the descriptors returned by
\* get_months_for_leads are strictly chronologically increasing along the
\* list.
C11_AsClaimed ==
    months.pc = "returned" =>
        \A j \in 1..(Len(months.out) - 1) :
            MonthOrdinal(months.out[j]) < MonthOrdinal(months.out[j + 1])

\* C11: the descriptors returned by get_months_for_leads are in time as
\* their offsets are in size: a larger offset gives a later month, an equal
\* offset the same month, so the list is strictly chronologically
\* increasing exactly when the offsets are strictly increasing; and a
\* December descriptor followed by the next offset is followed by January
\* of the following year.
C11_ChronologicalOrder ==
    months.pc = "returned" =>
        /\ \A j, k \in 1..Len(months.out) :
              (months.leads[j] < months.leads[k]) <=>
                  (MonthOrdinal(months.out[j]) < MonthOrdinal(months.out[k]))
        /\ \A j \in 1..(Len(months.out) - 1) :
              (months.out[j].month = 12 /\ months.leads[j + 1] = months.leads[j] + 1) =>
                  /\ months.out[j + 1].month = 1
                  /\ months.out[j + 1].year = months.out[j].year + 1
                  /\ months.out[j + 1].buddhist_year = months.out[j].buddhist_year + 1

\* Increasing offsets from November: December of the year and January of
\* the next one follow each other.
C11_Witness ==
    /\ months.pc = "returned" /\ months.year = 2025 /\ months.month = 11
    /\ months.leads = <<0, 1, 2>>
    /\ months.out[2].month = 12 /\ months.out[2].year = 2025
    /\ months.out[3].month = 1 /\ months.out[3].year = 2026

\* The number of pieces of a formatted range that are the given piece.
Mentions(range, piece) == Cardinality({k \in 1..Len(range) : range[k] = piece})

\* C12: format_month_range on a non-empty list joins the names of the first
\* and the last descriptor with the separator: with one Buddhist year the
\* year is written once, after the end month; with two, each month is
\* followed by its year; the empty list gives the empty string; and
\* (2026, 1, [0, 1, 2]) gives January - March 2569.
C12_FormatMonthRange ==
    months.pc = "formatted" =>
        LET out == months.out
            r == months.range
            first == out[1]
            last == out[Len(out)]
        IN  /\ out = <<>> => r = <<>>
            /\ (out # <<>> /\ first.buddhist_year = last.buddhist_year) =>
                  /\ r = <<first.thai_name, " - ", last.thai_name, " ",
                           ToString(first.year + 543)>>
                  /\ Mentions(r, ToString(first.year + 543)) = 1
            /\ (out # <<>> /\ first.buddhist_year # last.buddhist_year) =>
                  /\ r = <<first.thai_name, " ", ToString(first.year + 543), " - ",
                           last.thai_name, " ", ToString(last.year + 543)>>
                  /\ Mentions(r, ToString(first.year + 543)) = 1
                  /\ Mentions(r, ToString(last.year + 543)) = 1
            /\ (months.year = 2026 /\ months.month = 1 /\ months.leads = <<0, 1, 2>>) =>
                  r = <<"Makarakhom", " - ", "Minakhom", " ", "2569">>

\* A range from December into the next year: both years are written.
C12_Witness ==
    /\ months.pc = "formatted" /\ months.year = 2025 /\ months.month = 12
    /\ months.leads = <<0, 1>>
    /\ months.range = <<"Thanwakhom", " ", "2568", " - ", "Makarakhom", " ", "2569">>

(***************************************************************************)
(* Claims about the output path resolver.                                  *)
(***************************************************************************)
\* C13: when the directory held no report at first and holds exactly the
\* reports saved to the paths built so far, none deleted, the k-th
\* build_output_path for
\* the same spec returns the official name for k = 1 and the official name
\* with " (k-1)" before the extension otherwise, a path different from all
\* earlier ones; for (flood, 2026, 1, prod) the second path is the first
\* one's name with " (1)" before ".pptx".
C13_SecondBuildSuffixed ==
    (outp.pc = "returned" /\ outp.fresh
        /\ Entries(fs, Parent(outp.path)) = Range(outp.saved)
        /\ Cardinality(Range(outp.saved)) = Len(outp.saved)) =>
        LET k == Len(outp.saved) + 1
            stem == OfficialStem(outp.spec)
            name == outp.path[Len(outp.path)]
        IN  /\ outp.path \notin Range(outp.saved)
            /\ k = 1 => name = stem \o ".pptx"
            /\ k > 1 => name = stem \o " (" \o ToString(k - 1) \o ")" \o ".pptx"
            /\ (outp.spec = ScenarioSpec /\ k = 2) =>
                  /\ outp.saved[1] =
                        <<"output", "flood",
                          "202601_RiskAreaAnalysisFloodM.K.-Mi.Y.69.pptx">>
                  /\ outp.path =
                        <<"output", "flood",
                          "202601_RiskAreaAnalysisFloodM.K.-Mi.Y.69 (1).pptx">>

\* The third build of the scenario, with both earlier reports in place.
C13_Witness ==
    /\ outp.pc = "returned" /\ outp.fresh /\ outp.spec = ScenarioSpec
    /\ Len(outp.saved) = 2 /\ Range(outp.saved) \subseteq fs.files
    /\ outp.path = Candidate(ScenarioSpec, 2)

\* C14: the path build_output_path returns does not exist when it returns;
\* it is the official name when that is free and otherwise the numbered
\* name with the smallest free number from 1; the loop has tried no more
\* names than the directory has entries; and the save of the run to that
\* path adds a file and overwrites none.
C14_NonCollidingPath ==
    /\ [](outp.pc = "returned" =>
            LET directory == Parent(outp.path)
                stem == OfficialStem(outp.spec)
                Name(k) == IF k = 0 THEN stem \o ".pptx"
                           ELSE stem \o " (" \o ToString(k) \o ")" \o ".pptx"
            IN  /\ outp.path \notin fs.files \cup fs.dirs
                /\ outp.probes <= Cardinality(Entries(fs, directory))
                /\ outp.path = Append(directory, Name(outp.probes))
                /\ \A k \in 0..(outp.probes - 1) :
                      Append(directory, Name(k)) \in fs.files \cup fs.dirs)
    /\ [][(outp.pc = "returned" /\ outp'.pc = "saved") =>
            /\ outp'.exc = ""
            /\ outp.path \notin fs.files \cup fs.dirs
            /\ fs'.files = fs.files \cup {outp.path}
            /\ fs'.dirs = fs.dirs]_vars

\* The official name and number 2 are taken, number 1 is free: number 1 is
\* returned and saved to.
C14_Witness ==
    /\ outp.pc = "saved" /\ outp.probes = 1
    /\ outp.path = Candidate(ScenarioSpec, 1)
    /\ {Candidate(ScenarioSpec, k) : k \in 0..2} \subseteq fs.files

InvalidSpec(spec) ==
    \/ spec.report_type \in {"", " "}
    \/ spec.month < 1 \/ spec.month > 12
    \/ spec.year < 1900 \/ spec.year > 3000
    \/ spec.mode \notin {"prod", "dev"}

\* C16: build_output_path raises ValueError for a blank report type, a
\* month outside 1..12, a year outside 1900..3000 and a mode other than
\* prod and dev, and has then created no directory and returned no path;
\* for every other spec it raises no ValueError.
C16_ValidationFirst ==
    [][outp'.builds = outp.builds + 1 =>
        /\ InvalidSpec(outp.spec) =>
              /\ outp'.pc = "raised" /\ outp'.exc = "ValueError"
              /\ fs' = fs /\ outp'.path = <<>>
        /\ ~InvalidSpec(outp.spec) => outp'.exc # "ValueError"]_vars

\* Month 13 of a year at the upper bound is rejected in an empty working
\* directory, which stays empty.
C16_Witness ==
    /\ outp.pc = "raised" /\ outp.exc = "ValueError"
    /\ outp.spec = OutputSpec("flood", 3000, 13, "prod")
    /\ outp.msg = <<"month must be 1..12 (got ", "13", ")">>
    /\ fs = NoFiles

(***************************************************************************)
(* Claims about the report run.                                            *)
(***************************************************************************)
\* C17: the tasks of a run complete in the order footer, cover, rain
\* forecast part 1, part 2, risk forecast, one at a time on the one
\* document; save is called at most once, only after all five, and is
\* called when none of them raised; a task that raises ends the run, which
\* then never saves and writes no file.
C17_SequentialRun ==
    /\ [](run.done = SubSeq(Tasks, 1, Len(run.done)))
    /\ [](Tasks = <<"footer", "cover", "rain1", "rain2", "risk">>)
    /\ [][Len(run'.done) <= Len(run.done) + 1]_vars
    /\ [](run.saves <= 1 /\ (run.saves = 1 => run.done = Tasks))
    /\ [][fs' # fs => (run.pc = "save" /\ run.done = Tasks /\ run'.saves = 1)]_vars
    /\ [][(run.exc = "" /\ run'.exc # "") => run'.pc = "failed"]_vars
    /\ [][run.pc # "failed"]_vars
    /\ [](run.pc = "failed" =>
            (run.exc # "" /\ run.saves = 0 /\ run.output_path \notin fs.files))
    /\ [](run.pc = "done" =>
            (run.done = Tasks /\ run.saves = 1 /\ run.output_path \in fs.files))
    /\ [][(run.pc = "risk" /\ run'.exc = "") => run'.pc = "save"]_vars
    /\ [][run.pc = "save" => run'.saves = run.saves + 1]_vars

\* A run that failed in the fourth task on a shape that is not on the
\* slide: three tasks had completed, nothing was saved.
C17_Witness ==
    /\ run.pc = "failed" /\ run.exc = "ShapeNotFoundError"
    /\ run.done = <<"footer", "cover", "rain1">>
    /\ run.saves = 0 /\ run.output_path \notin fs.files
    /\ Len(run.urls) = 3

\* report, year and month were all given on the command line.
AllGiven == app.args.report # <<>> /\ app.args.year # <<>> /\ app.args.month # <<>>

\* C18: when report generation fails, a process that was given report, year
\* and month exits with a non-zero status without starting another run; a
\* process that was not logs the failure and returns to the menu, and ends
\* only when the user chooses Exit; a successful run with all three given is
\* the only report run and the loop is left after it.
C18_AsClaimed ==
    /\ [][(app.pc = "except" /\ AllGiven)
            => (app'.pc = "exited" /\ app'.status # 0)]_vars
    /\ [](AllGiven => app.runs <= 1)
    /\ [][(app.pc = "except" /\ ~AllGiven)
            => (app'.pc = "end" /\ app'.failures = app.failures + 1)]_vars
    /\ [][(app.pc = "end" /\ ~AllGiven) => app'.pc = "params"]_vars
    /\ []((app.pc = "exited" /\ ~AllGiven)
            => (app.exit_reason = "USER_EXIT" /\ app.status = 0))
    /\ [][(app.pc = "end" /\ AllGiven) => (app'.pc = "return" /\ app.runs = 1)]_vars

\* C19: the prompts are entered exactly when one of --report, --year,
\* --month is missing; with all three given the process never prompts and
\* the parameters of the report are the given values.
C19_AsClaimed ==
    /\ [](AllGiven => app.prompts = 0)
    /\ []((AllGiven /\ app.pc \in {"generate", "except", "end"})
            => /\ app.report_type = app.args.report[1]
               /\ app.year = app.args.year[1]
               /\ app.month = app.args.month[1])
    /\ []((~AllGiven /\ app.pc # "params") => app.prompts >= 1)

\* The shape at place <<master, layout, shape>> of the slide masters.
LayoutShape(ms, q) == ms[q[1]][q[2]][q[3]]

\* C20: set_text_on_layouts(name, text, preserve) replaces the text of every
\* shape named name on every layout of every master and returns how many
\* shapes that were, at least one; it raises ShapeNotFoundError exactly when
\* no layout has a shape of the name, and then no layout has changed; shapes
\* of other names and all slides stay as they were.
C20_SetTextOnLayouts ==
    [][res'.op = "set_text_on_layouts" =>
        LET matches == {q \in LayoutPlaces(masters) :
                            LayoutShape(masters, q).name = res'.name}
        IN  /\ slides' = slides
            /\ Len(masters') = Len(masters)
            /\ LayoutPlaces(masters') = LayoutPlaces(masters)
            /\ \A q \in LayoutPlaces(masters) \ matches :
                    LayoutShape(masters', q) = LayoutShape(masters, q)
            /\ res'.exc = "" =>
                    /\ res'.count = Cardinality(matches)
                    /\ res'.count >= 1
                    /\ \A q \in matches :
                        /\ has_text_frame(LayoutShape(masters, q))
                        /\ LayoutShape(masters', q) =
                             set_text_on_shape(LayoutShape(masters, q), res'.text,
                                               res'.preserve).val
                        /\ LayoutShape(masters', q).name = res'.name
            /\ (res'.exc = "ShapeNotFoundError") <=> (matches = {})
            /\ res'.exc = "ShapeNotFoundError" => masters' = masters
            /\ res'.exc \in {"", "ShapeNotFoundError", "ValueError"}]_vars

C20_Witness ==
    /\ res.op = "set_text_on_layouts" /\ res.exc = "" /\ res.count = 2
    /\ res.name = "Txt_Footer" /\ res.text = <<"A", "B">> /\ ~res.preserve
    /\ \A l \in {1, 2} : /\ masters[1][l][1].name = "Txt_Footer"
                         /\ masters[1][l][1].tf = TextFrameSetText(res.text)
    /\ masters[2][1][1].name = "Other"

(***************************************************************************)
(* Further claims about the engine.                                        *)
(***************************************************************************)
\* The position of the first shape of a slide with a name, 0 when no shape
\* has it.
FirstNamed(slide, name) ==
    IF \A k \in 1..Len(slide.shapes) : slide.shapes[k].name # name THEN 0
    ELSE CHOOSE k \in 1..Len(slide.shapes) :
            /\ slide.shapes[k].name = name
            /\ \A j \in 1..(k - 1) : slide.shapes[j].name # name

\* C21: replace_image on a shape that is no picture raises with the shape
\* tree as it was, set_text on a shape without text frame raises with the
\* slide as it was, and get_shape, set_text and replace_image on a name no
\* shape has raise ShapeNotFoundError, naming the slide id, and change
\* nothing.
C21_TypeErrorsBeforeMutation ==
    [][res'.op \in {"get_shape", "set_text", "replace_image"} =>
        LET slide == slides[res'.slide]
            k == FirstNamed(slide, res'.name)
        IN  /\ (k = 0) <=> (res'.exc = "ShapeNotFoundError")
            /\ k = 0 => /\ slides' = slides /\ masters' = masters
                        /\ res'.msg[Len(res'.msg)] = ToString(slide.slide_id)
                        /\ res'.msg[2] = res'.name
            /\ (res'.op = "replace_image" /\ k # 0
                    /\ slide.shapes[k].shape_type # "PICTURE")
               => (res'.exc = "PptEngineError" /\ slides' = slides)
            /\ (res'.op = "set_text" /\ k # 0 /\ ~has_text_frame(slide.shapes[k]))
               => (res'.exc = "PptEngineError" /\ slides' = slides)
            /\ res'.op = "get_shape" => (slides' = slides /\ masters' = masters)
            /\ res'.exc \in {"ShapeNotFoundError", "PptEngineError"}
               => slides' = slides]_vars

\* replace_image has just refused a group shape, which is still on its
\* slide.
C21_Witness ==
    /\ res.op = "replace_image" /\ res.exc = "PptEngineError" /\ res.name = "Img"
    /\ \E k \in 1..Len(slides[res.slide].shapes) :
          /\ slides[res.slide].shapes[k].name = "Img"
          /\ slides[res.slide].shapes[k].shape_type = "GROUP"
          /\ FirstNamed(slides[res.slide], "Img") = k

\* The first shape of the name of the call is a picture.
PictureTarget ==
    LET slide == slides[res'.slide]
        k == FirstNamed(slide, res'.name)
    IN  k # 0 /\ slide.shapes[k].shape_type = "PICTURE"

\* C22: whatever the calls that put the new picture back at the recorded
\* index do, return or raise, replace_image of a picture returns normally.
C22_RestorationNeverRaises ==
    [][(res'.op = "replace_image" /\ PictureTarget) => res'.exc = ""]_vars

\* sp_tree.remove raised in a call on the lower of two shapes: the call
\* returned and the new picture is where add_picture put it, on top.
C22_Witness ==
    /\ res.op = "replace_image" /\ res.exc = "" /\ res.fault = "remove"
    /\ LET shapes == slides[res.slide].shapes
       IN  /\ Len(shapes) = 2
           /\ shapes[2].image = res.image
           /\ shapes[1].image # res.image
           /\ shapes[2].id > shapes[1].id

\* C28, as claimed: whenever replace_image returns normally the slide has
\* the new picture and as many shapes as before the call, also when the
\* picture was taken out of the shape tree and putting it back raised.
C28_AsClaimed ==
    [][(res'.op = "replace_image" /\ res'.exc = "") =>
        LET old == slides[res'.slide].shapes
            new == slides'[res'.slide].shapes
        IN  /\ Len(new) = Len(old)
            /\ \E j \in 1..Len(new) : /\ new[j].shape_type = "PICTURE"
                                      /\ new[j].image = res'.image
                                      /\ new[j].id = NextShapeId(RemoveAt(old, TargetPos))]_vars

\* C23: get_shape returns the first shape, in the slide's shape order, whose
\* name is the name asked for; set_text and replace_image act on that first
\* shape, judge its type, and leave a later shape of the same name as it
\* was.
C23_FirstMatchWins ==
    [][res'.op \in {"get_shape", "set_text", "replace_image"} =>
        LET old == slides[res'.slide].shapes
            new == slides'[res'.slide].shapes
            k == FirstNamed(slides[res'.slide], res'.name)
        IN  /\ (res'.op = "get_shape" /\ res'.exc = "") =>
                   /\ res'.pos = k /\ k >= 1
                   /\ old[k].name = res'.name
                   /\ \A j \in 1..(k - 1) : old[j].name # res'.name
            /\ (res'.op = "set_text" /\ k # 0) =>
                   /\ (res'.exc = "PptEngineError") <=> ~has_text_frame(old[k])
                   /\ Len(new) = Len(old)
                   /\ \A j \in 1..Len(old) : j # k => new[j] = old[j]
                   /\ res'.exc = "" =>
                         new[k].tf = IF res'.preserve
                                     THEN PreserveFormatText(old[k].tf, res'.text)
                                     ELSE <<ParagraphSetText(res'.text)>>
            /\ (res'.op = "replace_image" /\ k # 0) =>
                   /\ (res'.exc = "PptEngineError") <=> old[k].shape_type # "PICTURE"
                   /\ Len(new) = Len(old)
                   /\ \A j \in 1..Len(old) : j # k => new[j] = old[j]
                   /\ res'.exc = "" => (new[k].image = res'.image
                                         /\ Geometry(new[k]) = Geometry(old[k]))]_vars

\* Two text boxes of one slide share a name; set_text has changed the first
\* and the second holds its text of the template.
C23_Witness ==
    /\ res.op = "set_text" /\ res.exc = "" /\ res.text = <<"B">>
    /\ LET shapes == slides[res.slide].shapes
       IN  /\ Len(shapes) = 2
           /\ shapes[1].name = res.name /\ shapes[2].name = res.name
           /\ shapes[1].tf = <<<<Run(<<"B">>)>>>>
           /\ shapes[2].tf = DefaultFrame

\* paragraph.text, line by line: the texts of the runs, a new line at every
\* line break.
RECURSIVE ParaLines(_, _, _)
ParaLines(p, k, cur) ==
    IF k > Len(p) THEN <<cur>>
    ELSE IF p[k].kind = "br" THEN <<cur>> \o ParaLines(p, k + 1, "")
    ELSE ParaLines(p, k + 1, cur \o p[k].text[1])

ParagraphLines(p) == ParaLines(p, 1, "")

\* C24, as claimed: set_text with preserve_format false leaves a frame of
\* exactly one paragraph whose text is the given text, whatever paragraphs
\* and runs the frame had before.
C24_AsClaimed ==
    [][res'.op = "set_text" =>
        LET old == slides[res'.slide].shapes
            new == slides'[res'.slide].shapes
            k == FirstNamed(slides[res'.slide], res'.name)
        IN  /\ (k # 0 /\ has_text_frame(old[k])) => res'.exc = ""
            /\ (res'.exc = "" /\ ~res'.preserve) =>
                   /\ Len(new[k].tf) = 1
                   /\ ParagraphLines(new[k].tf[1]) = res'.text]_vars

(***************************************************************************)
(* Claims about the page tasks.                                            *)
(***************************************************************************)
\* The page of a task, the slide of a page, and the pattern of its images.
TaskPage(task) ==
    IF task = "rain1" THEN "rain_forecast_part1"
    ELSE IF task = "rain2" THEN "rain_forecast_part2"
    ELSE "risk_forecast"

PageSlide(page) == CHOOSE i \in 1..Len(ReportPages) : ReportPages[i] = page

PageTasks == <<"rain1", "rain2", "risk">>

\* The URL of a lead of a page as the configured patterns spell it, with the
\* base year and month of the run.
ExpectedUrl(page, lead) ==
    "http://host" \o (IF page = "risk_forecast" THEN "/risk/" ELSE "/rain/")
        \o ToString(run.year) \o (IF run.month < 10 THEN "0" ELSE "")
        \o ToString(run.month) \o "/lead" \o ToString(lead) \o ".png"

\* The URLs of all page tasks in the order the run builds them.
ExpectedUrls ==
    [k \in 1..12 |->
        IF k <= 3 THEN ExpectedUrl("rain_forecast_part1", k - 1)
        ELSE IF k <= 6 THEN ExpectedUrl("rain_forecast_part2", k - 1)
        ELSE ExpectedUrl("risk_forecast", k - 7)]

\* The first shape of a name on the slide of a page holds a text in its
\* first run.
ShapeHolds(page, name, text) ==
    LET slide == slides[PageSlide(page)]
        k == FirstNamed(slide, name)
    IN  /\ k # 0 /\ has_text_frame(slide.shapes[k])
        /\ Len(slide.shapes[k].tf) >= 1
        /\ Len(Runs(slide.shapes[k].tf[1])) >= 1
        /\ Runs(slide.shapes[k].tf[1])[1].text = text

TitleSet(page) ==
    LET slide == slides[PageSlide(page)]
        k == FirstNamed(slide, "Txt_Title")
    IN  k # 0 /\ has_text_frame(slide.shapes[k]) /\ slide.shapes[k].tf # DefaultFrame

LabelSet(page, lead) ==
    ShapeHolds(page, "Txt_" \o LeadKey(lead),
               <<THAI_MONTHS[((run.month - 1 + lead) % 12) + 1]>>)

\* The slide of a page has a picture showing what was fetched for a lead,
\* or the placeholder of the lead when nothing could be fetched.
ImageReplaced(page, lead) ==
    LET slide == slides[PageSlide(page)]
        shown == IF run.net = "up" THEN ExpectedUrl(page, lead)
                 ELSE "placeholder Lead" \o ToString(lead)
    IN  \E k \in 1..Len(slide.shapes) :
            /\ slide.shapes[k].shape_type = "PICTURE"
            /\ slide.shapes[k].image = shown
            /\ Geometry(slide.shapes[k]) =
                 Geometry(TemplateSlide(PageSlide(page), PageSpecs(page)).shapes[k])

HasLabels(page) == page # "risk_forecast"

\* C25: a page task that has returned has set, for every lead of its page,
\* the label to the Thai name of base month + lead (pages with labels) and
\* replaced the picture by the image of the URL made of the pattern, the
\* base year and month and the lead; in a task the title comes first, the
\* leads in ascending order, the label of a lead before its image.
C25_PageTasks ==
    /\ [](\A t \in 1..Len(PageTasks) :
            LET page == TaskPage(PageTasks[t])
                leads == PageLeads(page)
            IN  /\ (\E d \in 1..Len(run.done) : run.done[d] = PageTasks[t]) =>
                       /\ TitleSet(page)
                       /\ \A j \in 1..Len(leads) :
                             /\ HasLabels(page) => LabelSet(page, leads[j])
                             /\ ImageReplaced(page, leads[j])
                /\ \A j \in 1..Len(leads) :
                       /\ (HasLabels(page) /\ LabelSet(page, leads[j])) =>
                             (TitleSet(page) /\ (j > 1 => ImageReplaced(page, leads[j - 1])))
                       /\ ImageReplaced(page, leads[j]) =>
                             /\ TitleSet(page)
                             /\ HasLabels(page) => LabelSet(page, leads[j])
                             /\ j > 1 => ImageReplaced(page, leads[j - 1]))
    /\ [](/\ Len(run.urls) <= Len(ExpectedUrls)
          /\ run.pc # "" => run.urls = SubSeq(ExpectedUrls, 1, Len(run.urls)))
    /\ []((\E d \in 1..Len(run.done) : run.done[d] = "risk") => run.urls = ExpectedUrls)
    /\ [][(run.pc = "rain1" /\ run'.exc = "") => Len(run'.urls) = 3]_vars
    /\ [][(run.pc = "rain2" /\ run'.exc = "") => Len(run'.urls) = 6]_vars

\* The run for October 2025 is through: the label of lead 5 shows March and
\* the last URL is that of the risk map of lead 5 for 202510.
C25_Witness ==
    /\ run.pc = "done" /\ run.year = 2025 /\ run.month = 10 /\ run.net = "up"
    /\ ShapeHolds("rain_forecast_part2", "Txt_lead5", <<"Minakhom">>)
    /\ ImageReplaced("risk_forecast", 5)
    /\ run.urls[12] = "http://host/risk/202510/lead5.png"
    /\ run.urls[4] = "http://host/rain/202510/lead3.png"

\* C30, as claimed: the run reads configuration only from config_path; once
\* that file is loaded no task fails for want of a configuration file, and a
\* missing configuration file the run reports is the one of config_path.
C30_AsClaimed ==
    /\ [][run.pc \in Range(Tasks) => run'.exc # "FileNotFoundError"]_vars
    /\ []((run.exc = "FileNotFoundError"
            /\ run.msg[1] = "Config file not found at: ")
           => run.msg[2] = run.config_path)

\* C26, as claimed: on an identical shape, text and preserve_format value
\* _set_text_on_shape leaves the paragraphs and runs set_text leaves, and
\* both reject a shape without text frame with the same kind of error.
C26_AsClaimed ==
    [][(res'.op = "set_text" /\ FirstNamed(slides[res'.slide], res'.name) # 0) =>
        LET k == FirstNamed(slides[res'.slide], res'.name)
            before == slides[res'.slide].shapes[k]
            after == slides'[res'.slide].shapes[k]
            on_layout == set_text_on_shape(before, res'.text, res'.preserve)
        IN  /\ on_layout.exc = res'.exc
            /\ on_layout.val.tf = after.tf]_vars

\* How many shapes of a slide have a name.
NamedCount(slide, name) ==
    Cardinality({k \in 1..Len(slide.shapes) : slide.shapes[k].name = name})

\* C27: the new picture does not get the name of the shape it replaces.
\* After a successful replace_image on a name that was unique on the slide
\* and is not the name the library gives the new picture, no shape of the
\* slide has the name, and get_shape and another replace_image on it raise
\* ShapeNotFoundError.
C27_NameNotCarriedOver ==
    /\ [][(/\ res'.op = "replace_image" /\ res'.exc = ""
           /\ NamedCount(slides[res'.slide], res'.name) = 1
           /\ res'.name # "Picture "
                    \o ToString(NextShapeId(RemoveAt(slides[res'.slide].shapes,
                                                     TargetPos)) - 1))
          => /\ NamedCount(slides'[res'.slide], res'.name) = 0
             /\ \E k \in 1..Len(slides'[res'.slide].shapes) :
                   LET pic == slides'[res'.slide].shapes[k]
                   IN  /\ pic.image = res'.image
                       /\ pic.name = "Picture " \o ToString(pic.id - 1)]_vars
    /\ [][(/\ res.op = "replace_image" /\ res.exc = ""
           /\ NamedCount(slides[res.slide], res.name) = 0
           /\ res'.op \in {"get_shape", "replace_image"}
           /\ res'.slide = res.slide /\ res'.name = res.name)
          => (res'.exc = "ShapeNotFoundError" /\ slides' = slides)]_vars

\* A second replace_image on the name of a picture that has been replaced
\* has failed: the slide holds the picture of the first call under the name
\* the library gave it.
C27_Witness ==
    /\ res.op = "replace_image" /\ res.exc = "ShapeNotFoundError" /\ res.name = "Img"
    /\ LET shapes == slides[res.slide].shapes
       IN  /\ Len(shapes) = 1
           /\ shapes[1].image = "imgA"
           /\ shapes[1].name = "Picture 1"

(***************************************************************************)
(* The output manager against the month formatter.                         *)
(***************************************************************************)
\* The last two decimal digits of a number.
LastTwoDigits(n) == ToString((n \div 10) % 10) \o ToString(n % 10)

\* C29: the official file name is year, two-digit month, "_", the title,
\* the abbreviation of the start month, "-", the abbreviation of the month
\* of the lead-5 descriptor of get_months_for_leads(year, month, [5]), which
\* is month ((month + 4) mod 12) + 1, and the last two digits of year + 543
\* of the start month, also when the lead-5 month is in the next year.
C29_FilenameAgreesWithMonths ==
    (outp.pc = "named" /\ months.pc = "returned") =>
        LET spec == outp.spec
            lead5 == months.out[1]
            topic == IF spec.report_type = "drought" THEN "DroughtMonth" ELSE "Flood"
        IN  /\ Len(months.out) = 1
            /\ lead5.month = ((spec.month + 4) % 12) + 1
            /\ lead5.year = IF spec.month > 7 THEN spec.year + 1 ELSE spec.year
            /\ outp.path = <<ToString(spec.year)
                               \o (IF spec.month < 10 THEN "0" ELSE "")
                               \o ToString(spec.month) \o "_RiskAreaAnalysis" \o topic
                               \o get_thai_month_abbr(spec.month) \o "-"
                               \o get_thai_month_abbr(lead5.month)
                               \o LastTwoDigits(spec.year + 543) \o ".pptx">>

\* October 2025: the window ends in March 2026 (2569) and the name carries
\* 68, the Buddhist year of October 2025.
C29_Witness ==
    /\ outp.pc = "named" /\ months.pc = "returned"
    /\ outp.spec.year = 2025 /\ outp.spec.month = 10
    /\ months.out[1].month = 3 /\ months.out[1].buddhist_year = 2569
    /\ outp.path = <<"202510_RiskAreaAnalysisFloodT.K.-Mi.K.68.pptx">>
====
